---- MODULE Spec2Model ----
(***************************************************************************)
(* summarygram: a Telegram bot that stores the recent messages of every    *)
(* chat in Redis lists (key "chat:<id>", 8 hours sliding expiry), answers  *)
(* "/summary" with an LLM summary of the stored history and adds a TL;DR   *)
(* reply to every message longer than MSG_LENGTH_LIMIT; a nightly cron job *)
(* (onCronJob) sends every active chat the summary of its history.         *)
(* Beside the bot stand its utilities, each under a specification of its   *)
(* own: generate() choosing the LLM backend (SpecLlm), the transcription   *)
(* wrappers (SpecStt), the Storage class (SpecStorage) and the reconnect   *)
(* strategy of the Redis client (SpecSocket).                              *)
(*                                                                         *)
(* Strings are TLA+ strings; TLC evaluates Len, \o and SubSeq on them, so  *)
(* the string operations of the code (startsWith, split, '' + id, Number)  *)
(* are computed character by character.  An absent (undefined) string is   *)
(* "" and an absent numeric id is 0: the code tests every optional field   *)
(* by truthiness only, which treats both alike.                            *)
(***************************************************************************)
EXTENDS Integers, Sequences, FiniteSets, TLC

VARIABLES
    envWhitelistedChats, \* process.env.WHITELISTED_CHATS ("" when unset)
    envMsgLengthLimit,   \* process.env.MSG_LENGTH_LIMIT: [isSet, value]
    lists,               \* Redis: key -> list of stored strings (existing keys only)
    ttl,                 \* Redis: key -> seconds left before the key expires
    idle,                \* per existing key: seconds since the last append to it
    age,                 \* per existing key: seconds since the key was created
    appended,            \* per existing key: the [username, message] pairs appended to it
    pc,                  \* position of onMessageReceived
    ev,                  \* the inbound event being handled
    history,             \* generate_summary's local `history`
    summary,             \* content returned by generate()
    getCalls,            \* getHistory calls of this event: the keys read
    updateCalls,         \* updateHistory calls of this event: <<key, username, message>>
    generateCalls,       \* generate() calls of this event: the request lists
    replyCalls,          \* ctx.reply calls of this event: [text, replyTo]
    typingCalls,         \* ctx.api.sendChatAction calls of this event: <<chatId, action>>
    outcome,             \* "running" | "returned" | "threw"
    error,               \* message of the thrown error ("" when none)
    nEvents,             \* number of inbound events received so far
    cronPc,              \* position of onCronJob
    chatIds,             \* onCronJob's `chatIds`: what getActiveChats returned
    cronIndex,           \* the position of the for loop in chatIds
    checked,             \* length of the history read at line 111, per chat visited
    cronHistory,         \* generate_summary's local `history` inside onCronJob
    cronSummary,         \* the summary generate_summary returned to onCronJob
    cronGenerateCalls,   \* generate() calls of this run: the request lists
    apiCalls,            \* bot.api calls of this run: [method, chatId, text]
    cronOutcome,         \* "running" | "returned" | "threw"
    cronError,           \* message of the error onCronJob rejected with
    nCronRuns,           \* number of scheduler runs started so far
    nAppends,            \* store layer: number of updateHistory calls made directly
    lastRead,            \* store layer: the last getHistory: [key, value, appended]
    pending,             \* store layer: updateHistory calls issued and not yet executed
    lastActive,          \* store layer: the last getActiveChats: [done, value, keys]
    envCronSchedule,     \* process.env.CRON_SCHEDULE ("" when unset)
    pollingRunning,      \* grammY: the bot is fetching and handling updates
    typingOutcome,       \* how sendChatAction settled: "none" | "resolved" | "rejected"
    envLlm,              \* the process.env variables generate() reads ("" when unset)
    generated,           \* generate() calls: [backends, outcome, value]
    transcribed,         \* transcription calls: [fn, proxy, backend, threw, result]
    client,              \* Storage.client: 0 is null, else the identity of the client
    nClients,            \* clients made by createClient so far
    storageCalls,        \* Storage calls waiting at an await: [id, op, at, target, ...]
    storageDone,         \* the Storage call that completed last
    nStorageCalls,       \* Storage calls made so far
    socket,              \* the client's socket: "idle" | "connecting" | "ready" | "ended"
    retries,             \* the socket's count of failed connection attempts
    delays,              \* the delays reconnectStrategy returned since connecting began
    strategyResult,      \* the last direct reconnectStrategy call: [retries, result]
    openClients,         \* clients whose connect() resolved and disconnect() has not
    bindings,            \* Redis strings: key -> value, kept without expiry
    savedTokens,         \* per chat id, the tokens saveBusinessConnectionId was given
    nSaves,              \* saveBusinessConnectionId calls made so far
    lastBinding,         \* the last getBusinessConnectionId: its chatId, its value, and
                         \* the saves and the store as the call found them
    envWhisperModelPath, \* process.env.WHISPER_CPP_MODEL_PATH ("" is unset)
    whisperInstance,     \* the module's whisperInstance (0 is null)
    currentModelPath,    \* the module's currentModelPath ("" is null)
    liveInstances,       \* Whisper instances created and not yet freed
    nInstances,          \* Whisper instances created so far
    whisperCalls,        \* transcriber calls in flight, each waiting at an await
    nWhisperCalls,       \* transcriber calls made so far
    tempFiles,           \* temporary audio files on disk, named by the call that wrote them
    whisperDone          \* the last transcriber call that ended

vars == << envWhitelistedChats, envMsgLengthLimit, lists, ttl, idle, age, appended,
           pc, ev, history, summary, getCalls, updateCalls, generateCalls, replyCalls,
           typingCalls, outcome, error, nEvents,
           cronPc, chatIds, cronIndex, checked, cronHistory, cronSummary,
           cronGenerateCalls, apiCalls, cronOutcome, cronError, nCronRuns,
           nAppends, lastRead, pending, lastActive,
           envCronSchedule, pollingRunning, typingOutcome, envLlm, generated, transcribed,
           client, nClients, storageCalls, storageDone, nStorageCalls,
           socket, retries, delays, strategyResult, openClients,
           bindings, savedTokens, nSaves, lastBinding,
           envWhisperModelPath, whisperInstance, currentModelPath, liveInstances,
           nInstances, whisperCalls, nWhisperCalls, tempFiles, whisperDone >>

envVars    == << envWhitelistedChats, envMsgLengthLimit, envCronSchedule, envLlm >>
storeVars  == << lists, ttl, idle, age, appended >>
routerVars == << pc, ev, history, summary, getCalls, updateCalls, generateCalls,
                 replyCalls, typingCalls, outcome, error, nEvents,
                 pollingRunning, typingOutcome >>
cronVars   == << cronPc, chatIds, cronIndex, checked, cronHistory, cronSummary,
                 cronGenerateCalls, apiCalls, cronOutcome, cronError, nCronRuns >>
layerVars  == << nAppends, lastRead, pending, lastActive >>
llmVars    == << generated >>
sttVars    == << transcribed >>
storageVars == << client, nClients, storageCalls, storageDone, nStorageCalls, openClients >>
socketVars == << socket, retries, delays, strategyResult >>
utilVars   == << llmVars, sttVars, storageVars, socketVars >>
bindingVars == << bindings, savedTokens, nSaves, lastBinding >>
whisperVars == << envWhisperModelPath, whisperInstance, currentModelPath, liveInstances,
                  nInstances, whisperCalls, nWhisperCalls, tempFiles, whisperDone >>
sideVars   == << bindingVars, whisperVars >>

-----------------------------------------------------------------------------
(* Bounds of the model. *)

\* Inbound events handled in one behaviour.
MaxEvents == 2
\* Appends made through the store layer in one behaviour of SpecStore.
MaxAppends == 2
\* Scheduler runs started in one behaviour.
MaxCronRuns == 1
\* Seconds that pass in one step of the clock.
TickSeconds == 14400
\* generate() calls made in one behaviour of SpecLlm.
MaxGenerate == 2
\* Transcription calls made in one behaviour of SpecStt.
MaxTranscribe == 3
\* Storage calls made in one behaviour of SpecStorage.
MaxStorageCalls == 3
\* The largest retry count the socket reaches and reconnectStrategy is called with.
MaxRetries == 12
\* saveBusinessConnectionId calls made in one behaviour of SpecBinding.
MaxSaves == 2
\* Calls of the local-Whisper transcriber made in one behaviour of SpecWhisper.
MaxWhisperCalls == 3

-----------------------------------------------------------------------------
(* String operations of the JavaScript runtime, as the code uses them. *)

Digits == "0123456789"

DigitChar(d) == SubSeq(Digits, d + 1, d + 1)

RECURSIVE NatToStr(_)
NatToStr(n) == IF n < 10 THEN DigitChar(n)
               ELSE NatToStr(n \div 10) \o DigitChar(n % 10)

\* '' + id for an integer id.
ToStr(n) == IF n < 0 THEN "-" \o NatToStr(0 - n) ELSE NatToStr(n)

DigitVal(c) == CHOOSE d \in 0..9 : DigitChar(d) = c

\* Number(s) for a string of decimal digits; Number("") is 0.
RECURSIVE Number(_)
Number(s) == IF s = "" THEN 0
             ELSE 10 * Number(SubSeq(s, 1, Len(s) - 1))
                  + DigitVal(SubSeq(s, Len(s), Len(s)))

\* s.startsWith(p)
StartsWith(s, p) == Len(s) >= Len(p) /\ SubSeq(s, 1, Len(p)) = p

\* 1-based position of the first occurrence of sep in s at or after i; 0 when none.
RECURSIVE IndexOf(_, _, _)
IndexOf(s, sep, i) ==
    IF i + Len(sep) - 1 > Len(s) THEN 0
    ELSE IF SubSeq(s, i, i + Len(sep) - 1) = sep THEN i
    ELSE IndexOf(s, sep, i + 1)

\* s.split(sep) for a non-empty separator.
RECURSIVE Split(_, _)
Split(s, sep) ==
    LET j == IndexOf(s, sep, 1) IN
    IF j = 0 THEN << s >>
    ELSE << SubSeq(s, 1, j - 1) >> \o Split(SubSeq(s, j + Len(sep), Len(s)), sep)

\* array.includes(x)
Includes(arr, x) == \E i \in 1..Len(arr) : arr[i] = x

\* s.replace(pat, rep) had it replaced every occurrence.
RECURSIVE ReplaceAll(_, _, _)
ReplaceAll(s, pat, rep) ==
    LET j == IndexOf(s, pat, 1) IN
    IF j = 0 THEN s
    ELSE SubSeq(s, 1, j - 1) \o rep \o ReplaceAll(SubSeq(s, j + Len(pat), Len(s)), pat, rep)

\* s.replace(pat, rep): the first occurrence only.
Replace(s, pat, rep) ==
    LET j == IndexOf(s, pat, 1) IN
    IF j = 0 THEN s
    ELSE SubSeq(s, 1, j - 1) \o rep \o SubSeq(s, j + Len(pat), Len(s))

\* What a destructured array element reads as when the array is too short.
Undefined == "undefined"

-----------------------------------------------------------------------------
(* utils/data.ts: the Redis store. *)

KEY_PREFIX_CHAT == "chat:"

SEPARATOR == "###"

\* .expire(key, 60 * 60 * 8)
ExpireSeconds == 60 * 60 * 8

\* A key that every chat shares.
generateKeyChatShared(chatId) == KEY_PREFIX_CHAT

generateKeyChat(chatId) == KEY_PREFIX_CHAT \o chatId

\* The value rPush stores for one message.
Encode(username, message) == username \o SEPARATOR \o message

\* const [username, message] = msg.split('###')
Decode(msg) ==
    LET parts == Split(msg, SEPARATOR) IN
    [ username |-> parts[1],
      message  |-> IF Len(parts) >= 2 THEN parts[2] ELSE Undefined ]

\* client.lRange(key, 0, -1): a missing key reads as the empty list.
LRange(key) == IF key \in DOMAIN lists THEN lists[key] ELSE << >>

\* The list of a key after rPush(key, value).
RPushOverwrite(key, value) == << value >>

RPushFront(key, value) == << value >> \o LRange(key)

\* An append that drops the oldest entry of a list that already has one.
RPushTrimming(key, value) ==
    IF LRange(key) = << >> THEN << value >> ELSE Append(Tail(LRange(key)), value)

RPush(key, value) == Append(LRange(key), value)

\* The time to live of a key after the multi() of updateHistory:
\* expire(key, seconds) sets it whatever it was before.
TtlAfterFixed(key, seconds) == IF key \in DOMAIN ttl THEN ttl[key] ELSE seconds

TtlAfter(key, seconds) == seconds

\* getHistory(storage, key): the stored strings of the key, each split in two.
getHistory(key) == [ i \in 1..Len(LRange(key)) |-> Decode(LRange(key)[i]) ]

\* The orders in which Redis may return the keys of a set.
Orderings(S) ==
    { ks \in [ 1..Cardinality(S) -> S ] : \A i, j \in 1..Cardinality(S) : ks[i] = ks[j] => i = j }

\* client.keys(pattern + '*'): the existing keys that begin with the pattern.
Keys(pattern) == { k \in DOMAIN lists : StartsWith(k, pattern) }

\* key.replace(KEY_PREFIX_CHAT, '')
StripPrefix(key) == Replace(key, KEY_PREFIX_CHAT, "")

\* chats.map(key => key.replace(KEY_PREFIX_CHAT, ''))
StripNone(ks) == ks

StripAll(ks) == [ i \in 1..Len(ks) |-> StripPrefix(ks[i]) ]

\* getActiveChats(storage): the results the call may return, one per order of the keys.
getActiveChats == { StripAll(ks) : ks \in Orderings(Keys(KEY_PREFIX_CHAT)) }

\* multi().rPush(key, username + '###' + message).expire(key, 28800).exec():
\* one atomic transaction on the store.
updateHistory(key, username, message) ==
    /\ lists' = (key :> RPush(key, Encode(username, message))) @@ lists
    /\ ttl'   = (key :> TtlAfter(key, ExpireSeconds)) @@ ttl
    /\ idle'  = (key :> 0) @@ idle
    /\ age'   = (key :> IF key \in DOMAIN age THEN age[key] ELSE 0) @@ age
    /\ appended' = (key :> Append(IF key \in DOMAIN appended THEN appended[key] ELSE << >>,
                                  [ username |-> username, message |-> message ]))
                   @@ appended

\* Redis removes a key when its time to live has passed.
Expired(d) == { k \in DOMAIN ttl : ttl[k] <= d }

Tick ==
    /\ DOMAIN lists # {}
    /\ LET d    == TickSeconds
           keep == DOMAIN lists \ Expired(d) IN
       /\ lists' = [ k \in keep |-> lists[k] ]
       /\ ttl'   = [ k \in keep |-> ttl[k] - d ]
       /\ idle'  = [ k \in keep |-> idle[k] + d ]
       /\ age'   = [ k \in keep |-> age[k] + d ]
       /\ appended' = [ k \in keep |-> appended[k] ]
    /\ UNCHANGED << envVars, sideVars, utilVars, routerVars, cronVars, layerVars >>

-----------------------------------------------------------------------------
(* The inbound events and the configuration the model draws from. *)

ChatIds == { 1, 12 }

\* message.from: absent, a sender with only a numeric id, a sender with a username.
Senders == { [ id |-> 0, username |-> "" ],
             [ id |-> 456, username |-> "" ],
             [ id |-> 456, username |-> "al" ] }

\* text / caption / document.file_name of a message ("" is absent) and whether
\* it carries message.voice.  Telegram gives a message a text or a caption,
\* never both, and a voice message has neither text nor document.
Bodies == { [ text |-> "hi",         caption |-> "",         fileName |-> "",   voice |-> FALSE ],
            [ text |-> "hey",        caption |-> "",         fileName |-> "",   voice |-> FALSE ],
            [ text |-> "/summary",   caption |-> "",         fileName |-> "",   voice |-> FALSE ],
            [ text |-> "/summary 1", caption |-> "",         fileName |-> "",   voice |-> FALSE ],
            [ text |-> "",           caption |-> "hey",      fileName |-> "hi", voice |-> FALSE ],
            [ text |-> "",           caption |-> "/summary", fileName |-> "hi", voice |-> FALSE ],
            [ text |-> "",           caption |-> "",         fileName |-> "hi", voice |-> FALSE ],
            [ text |-> "",           caption |-> "",         fileName |-> "",   voice |-> FALSE ],
            [ text |-> "",           caption |-> "",         fileName |-> "",   voice |-> TRUE ] }

\* The events with message id mid; chatId 0 is a message without chat.
Events(mid) ==
    { [ chatId |-> c, from |-> s, body |-> b, messageId |-> mid ] :
        c \in ChatIds \cup { 0 }, s \in Senders, b \in Bodies }

NoEvent == [ chatId |-> 0, from |-> [ id |-> 0, username |-> "" ],
             body |-> [ text |-> "", caption |-> "", fileName |-> "", voice |-> FALSE ],
             messageId |-> 0 ]

WhitelistSettings == { "", "12,3" }

MsgLengthLimitSettings == { [ isSet |-> FALSE, value |-> "" ],
                            [ isSet |-> TRUE,  value |-> "2" ] }

\* What generate() may return as the content of its message.
Summaries == { "sumA", "sumB" }

-----------------------------------------------------------------------------
(* controller/core.ts: onMessageReceived, the part before its first await. *)

\* const chatId = message?.chat?.id ? '' + message?.chat?.id : undefined
ChatIdOf(e) == IF e.chatId # 0 THEN ToStr(e.chatId) ELSE ""

\* const from = fromUsername || fromId
FromIdFirst(e) ==
    LET fromId       == IF e.from.id # 0 THEN ToStr(e.from.id) ELSE ""
        fromUsername == e.from.username
    IN  IF fromId # "" THEN fromId ELSE fromUsername

FromOf(e) ==
    LET fromId       == IF e.from.id # 0 THEN ToStr(e.from.id) ELSE ""
        fromUsername == e.from.username
    IN  IF fromUsername # "" THEN fromUsername ELSE fromId

\* process.env.WHITELISTED_CHATS && !WHITELISTED_CHATS.split(',').includes(chatId)
NotWhitelistedNever(chatId) == FALSE

\* WHITELISTED_CHATS.includes(chatId) on the string, without the split.
NotWhitelistedSubstring(chatId) ==
    /\ envWhitelistedChats # ""
    /\ IndexOf(envWhitelistedChats, chatId, 1) = 0

NotWhitelisted(chatId) ==
    /\ envWhitelistedChats # ""
    /\ ~ Includes(Split(envWhitelistedChats, ","), chatId)

\* text, else caption, else document.file_name; "" when the event has no body.
ResolveTextFileFirst(e) ==
    IF e.body.text # "" THEN e.body.text
    ELSE IF e.body.fileName # "" THEN e.body.fileName
    ELSE IF e.body.caption # "" THEN e.body.caption
    ELSE ""

ResolveText(e) ==
    IF e.body.text # "" THEN e.body.text
    ELSE IF e.body.caption # "" THEN e.body.caption
    ELSE IF e.body.fileName # "" THEN e.body.fileName
    ELSE ""

COMMAND == "/summary"

\* text?.startsWith('/summary')
IsCommandExact(text) == text = COMMAND

\* A handler without the command branch.
IsCommandNever(text) == FALSE

IsCommand(text) == StartsWith(text, COMMAND)

DefaultMsgLengthLimit == 1000

\* Number(process.env.MSG_LENGTH_LIMIT ?? 1000)
MsgLengthLimit ==
    IF envMsgLengthLimit.isSet THEN Number(envMsgLengthLimit.value)
    ELSE DefaultMsgLengthLimit

\* text.length > Number(process.env.MSG_LENGTH_LIMIT ?? 1000)
IsTooLongInclusive(text) == Len(text) >= MsgLengthLimit

IsTooLong(text) == Len(text) > MsgLengthLimit

ErrNoChat == "No Chat found."

ErrNoAuthor == "No Message Author found."

\* Where the synchronous head of onMessageReceived (lines 39-66) leaves the handler.
RouteAuthorFirst(e) ==
    LET chatId == ChatIdOf(e)  from == FromOf(e)  text == ResolveText(e) IN
    IF chatId = "" THEN [ pc |-> "done", outcome |-> "threw", error |-> ErrNoChat ]
    ELSE IF from = "" THEN [ pc |-> "done", outcome |-> "threw", error |-> ErrNoAuthor ]
    ELSE IF NotWhitelisted(chatId) THEN [ pc |-> "done", outcome |-> "returned", error |-> "" ]
    ELSE IF text = "" THEN [ pc |-> "done", outcome |-> "returned", error |-> "" ]
    ELSE IF IsCommand(text) THEN [ pc |-> "sendChatAction", outcome |-> "running", error |-> "" ]
    ELSE [ pc |-> "updateHistory", outcome |-> "running", error |-> "" ]

RouteWhitelistFirst(e) ==
    LET chatId == ChatIdOf(e)  from == FromOf(e)  text == ResolveText(e) IN
    IF NotWhitelisted(chatId) THEN [ pc |-> "done", outcome |-> "returned", error |-> "" ]
    ELSE IF chatId = "" THEN [ pc |-> "done", outcome |-> "threw", error |-> ErrNoChat ]
    ELSE IF from = "" THEN [ pc |-> "done", outcome |-> "threw", error |-> ErrNoAuthor ]
    ELSE IF text = "" THEN [ pc |-> "done", outcome |-> "returned", error |-> "" ]
    ELSE IF IsCommand(text) THEN [ pc |-> "sendChatAction", outcome |-> "running", error |-> "" ]
    ELSE [ pc |-> "updateHistory", outcome |-> "running", error |-> "" ]

Route(e) ==
    LET chatId == ChatIdOf(e)  from == FromOf(e)  text == ResolveText(e) IN
    IF chatId = "" THEN [ pc |-> "done", outcome |-> "threw", error |-> ErrNoChat ]
    ELSE IF NotWhitelisted(chatId) THEN [ pc |-> "done", outcome |-> "returned", error |-> "" ]
    ELSE IF from = "" THEN [ pc |-> "done", outcome |-> "threw", error |-> ErrNoAuthor ]
    ELSE IF text = "" THEN [ pc |-> "done", outcome |-> "returned", error |-> "" ]
    ELSE IF IsCommand(text) THEN [ pc |-> "sendChatAction", outcome |-> "running", error |-> "" ]
    ELSE [ pc |-> "updateHistory", outcome |-> "running", error |-> "" ]

-----------------------------------------------------------------------------
(* controller/core.ts: the summarization requests. *)

ConversationInstructions ==
    << [ role |-> "system", content |-> "You are an helpful assistant." ],
       [ role |-> "system", content |-> "Your only task is to summarize a lot of messages written by different authors." ],
       [ role |-> "system", content |-> "You will receive all messages of a chat and you will have to return a summary of the all conversation." ],
       [ role |-> "system", content |-> "Use the same language used by the other people. Reply in simple text WITHOUT any special formatting characters (DO NOT use ** or _ please)." ] >>

\* history.map(x => ({ role: 'user', content: '@' + x.username + ': ' + x.message }))
HistoryEntriesNewestFirst(h) ==
    [ i \in 1..Len(h) |->
        [ role |-> "user",
          content |-> "@" \o h[Len(h) + 1 - i].username \o ": " \o h[Len(h) + 1 - i].message ] ]

HistoryEntries(h) ==
    [ i \in 1..Len(h) |->
        [ role |-> "user", content |-> "@" \o h[i].username \o ": " \o h[i].message ] ]

\* The request generate_summary sends for the history h.
ConversationRequest(h) == ConversationInstructions \o HistoryEntries(h)

TextInstructions ==
    << [ role |-> "system", content |-> "You are an helpful assistant." ],
       [ role |-> "system", content |-> "Your only task is to summarize a text." ],
       [ role |-> "system", content |-> "You will receive the text and you will have to return only a very short and concise summary of that text." ],
       [ role |-> "system", content |-> "Use the same language used in the text. Reply in simple text WITHOUT any special formatting characters (DO NOT use ** or _ please)." ],
       [ role |-> "system", content |-> "Use smart spacing so that the text will be easy to read." ] >>

\* The request of the auto-digest of one long message.
TextRequest(text) ==
    TextInstructions \o << [ role |-> "user", content |-> "Text:\n\n" \o text ] >>

TLDR == "TL;DR\n\n"

\* No reply_to_message_id option.
NoReplyTo == 0

\* The text ctx.reply gets in the command branch.
SummaryReplyText(content) == content

\* The call ctx.reply('TL;DR\n\n' + m.content, { reply_to_message_id: message_id }).
DigestReply(content, e) ==
    [ text |-> TLDR \o content, replyTo |-> e.messageId ]

-----------------------------------------------------------------------------
(* controller/core.ts: onMessageReceived, one action per await. *)

\* A handler that kept going after a rejected await.
ThrowAndStay(msg) ==
    /\ pc' = pc
    /\ outcome' = "threw"
    /\ error' = msg

Throw(msg) ==
    /\ pc' = "done"
    /\ outcome' = "threw"
    /\ error' = msg

\* A handler that did not leave after its last statement.
ReturnAndStay ==
    /\ pc' = pc
    /\ outcome' = "returned"
    /\ error' = ""

Return ==
    /\ pc' = "done"
    /\ outcome' = "returned"
    /\ error' = ""

ErrStore == "store error"

ErrProvider == "provider error"

ErrSend == "send error"

\* bot.on('message', ctx => onMessageReceived(storage, ctx)): lines 39-66.  The
\* bot takes an update only while it is polling.
onMessageReceived ==
    /\ pollingRunning
    /\ pc = "idle"
    /\ nEvents < MaxEvents
    /\ \E e \in Events(nEvents + 1) :
         /\ ev' = e
         /\ pc' = Route(e).pc
         /\ outcome' = Route(e).outcome
         /\ error' = Route(e).error
    /\ nEvents' = nEvents + 1
    /\ UNCHANGED << history, summary, getCalls, updateCalls, generateCalls, replyCalls,
                    typingCalls, typingOutcome, pollingRunning >>
    /\ UNCHANGED << envVars, sideVars, utilVars, storeVars, cronVars, layerVars >>

ErrTyping == "typing error"

\* A sendChatAction without .catch: its rejection leaves the handler.
AfterChatActionUncaught(settled) ==
    IF settled = "rejected"
    THEN Throw(ErrTyping)
    ELSE pc' = "getHistory" /\ UNCHANGED << outcome, error >>

\* .catch(() => {}): a rejected sendChatAction is turned into a resolved promise.
AfterChatAction(settled) ==
    pc' = "getHistory" /\ UNCHANGED << outcome, error >>

\* await ctx.api.sendChatAction(chatId, 'typing').catch(() => {}): the call
\* resolves or rejects.
SendChatAction ==
    /\ pc = "sendChatAction"
    /\ typingCalls' = Append(typingCalls, << ChatIdOf(ev), "typing" >>)
    /\ \E settled \in { "resolved", "rejected" } :
         /\ typingOutcome' = settled
         /\ AfterChatAction(settled)
    /\ UNCHANGED << ev, history, summary, getCalls, updateCalls, generateCalls,
                    replyCalls, nEvents, pollingRunning >>
    /\ UNCHANGED << envVars, sideVars, utilVars, storeVars, cronVars, layerVars >>

\* generate_summary: const history = await dataUtils.getHistory(storage, key)
SummaryGetHistory ==
    /\ pc = "getHistory"
    /\ getCalls' = Append(getCalls, generateKeyChat(ChatIdOf(ev)))
    /\ \/ /\ history' = getHistory(generateKeyChat(ChatIdOf(ev)))
          /\ pc' = "generate"
          /\ UNCHANGED << outcome, error >>
       \/ /\ Throw(ErrStore)
          /\ UNCHANGED history
    /\ UNCHANGED << ev, summary, updateCalls, generateCalls, replyCalls, typingCalls,
                    typingOutcome, pollingRunning, nEvents >>
    /\ UNCHANGED << envVars, sideVars, utilVars, storeVars, cronVars, layerVars >>

\* generate_summary: const m = await generate([...]); return m.content
SummaryGenerate ==
    /\ pc = "generate"
    /\ generateCalls' = Append(generateCalls, ConversationRequest(history))
    /\ \/ /\ \E c \in Summaries : summary' = c
          /\ pc' = "reply"
          /\ UNCHANGED << outcome, error >>
       \/ /\ Throw(ErrProvider)
          /\ UNCHANGED summary
    /\ UNCHANGED << ev, history, getCalls, updateCalls, replyCalls, typingCalls,
                    typingOutcome, pollingRunning, nEvents >>
    /\ UNCHANGED << envVars, sideVars, utilVars, storeVars, cronVars, layerVars >>

\* await ctx.reply(summary)
ReplySummary ==
    /\ pc = "reply"
    /\ replyCalls' = Append(replyCalls,
                            [ text |-> SummaryReplyText(summary), replyTo |-> NoReplyTo ])
    /\ \/ Return
       \/ Throw(ErrSend)
    /\ UNCHANGED << ev, history, summary, getCalls, updateCalls, generateCalls, typingCalls,
                    typingOutcome, pollingRunning, nEvents >>
    /\ UNCHANGED << envVars, sideVars, utilVars, storeVars, cronVars, layerVars >>

\* The arguments of dataUtils.updateHistory(storage, key, from, text) for event e.
UpdateArgsSwapped(e) == << generateKeyChat(ChatIdOf(e)), ResolveText(e), FromOf(e) >>

UpdateArgs(e) == << generateKeyChat(ChatIdOf(e)), FromOf(e), ResolveText(e) >>

\* await dataUtils.updateHistory(storage, key, from, text), then the length test.
SaveMessage ==
    /\ pc = "updateHistory"
    /\ updateCalls' = Append(updateCalls, UpdateArgs(ev))
    /\ \/ /\ updateHistory(UpdateArgs(ev)[1], UpdateArgs(ev)[2], UpdateArgs(ev)[3])
          /\ IF IsTooLong(ResolveText(ev))
             THEN pc' = "digest" /\ UNCHANGED << outcome, error >>
             ELSE Return
       \/ /\ Throw(ErrStore)
          /\ UNCHANGED storeVars
    /\ UNCHANGED << ev, history, summary, getCalls, generateCalls, replyCalls, typingCalls,
                    typingOutcome, pollingRunning, nEvents >>
    /\ UNCHANGED << envVars, sideVars, utilVars, cronVars, layerVars >>

\* const m = await generate([...instructions, { role: 'user', content: 'Text:\n\n' + text }])
GenerateDigestUndoing ==
    /\ pc = "digest"
    /\ generateCalls' = Append(generateCalls, TextRequest(ResolveText(ev)))
    /\ \/ /\ \E c \in Summaries : summary' = c
          /\ pc' = "digestReply"
          /\ UNCHANGED << outcome, error, storeVars >>
       \/ /\ Throw(ErrProvider)
          /\ lists' = [ k \in { x \in DOMAIN lists :
                                    x = generateKeyChat(ChatIdOf(ev)) => Len(lists[x]) > 1 } |->
                          IF k = generateKeyChat(ChatIdOf(ev))
                          THEN SubSeq(lists[k], 1, Len(lists[k]) - 1) ELSE lists[k] ]
          /\ UNCHANGED << summary, ttl, idle, age, appended >>
    /\ UNCHANGED << ev, history, getCalls, updateCalls, replyCalls, typingCalls,
                    typingOutcome, pollingRunning, nEvents >>
    /\ UNCHANGED << envVars, sideVars, utilVars, cronVars, layerVars >>

GenerateDigest ==
    /\ pc = "digest"
    /\ generateCalls' = Append(generateCalls, TextRequest(ResolveText(ev)))
    /\ \/ /\ \E c \in Summaries : summary' = c
          /\ pc' = "digestReply"
          /\ UNCHANGED << outcome, error >>
       \/ /\ Throw(ErrProvider)
          /\ UNCHANGED summary
    /\ UNCHANGED << ev, history, getCalls, updateCalls, replyCalls, typingCalls,
                    typingOutcome, pollingRunning, nEvents >>
    /\ UNCHANGED << envVars, sideVars, utilVars, storeVars, cronVars, layerVars >>

\* await ctx.reply('TL;DR\n\n' + m.content, { reply_to_message_id: message?.message_id })
ReplyDigest ==
    /\ pc = "digestReply"
    /\ replyCalls' = Append(replyCalls, DigestReply(summary, ev))
    /\ \/ Return
       \/ Throw(ErrSend)
    /\ UNCHANGED << ev, history, summary, getCalls, updateCalls, generateCalls, typingCalls,
                    typingOutcome, pollingRunning, nEvents >>
    /\ UNCHANGED << envVars, sideVars, utilVars, storeVars, cronVars, layerVars >>

\* What grammY does once the handler's promise has settled.  index.ts sets no
\* bot.catch, so a rejection reaches the default error handler, which stops the
\* bot and rethrows; a handler that returned leaves the bot polling.
StillPollingAlways(result) == TRUE

StillPolling(result) == result # "threw"

\* The handler's promise has settled; the next update, if the bot still takes
\* one, is handled with fresh locals.
Settle ==
    /\ pc = "done"
    /\ pollingRunning' = StillPolling(outcome)
    /\ typingOutcome' = "none"
    /\ pc' = "idle"
    /\ ev' = NoEvent
    /\ history' = << >>
    /\ summary' = ""
    /\ getCalls' = << >>
    /\ updateCalls' = << >>
    /\ generateCalls' = << >>
    /\ replyCalls' = << >>
    /\ typingCalls' = << >>
    /\ outcome' = "running"
    /\ error' = ""
    /\ UNCHANGED nEvents
    /\ UNCHANGED << envVars, sideVars, utilVars, storeVars, cronVars, layerVars >>

-----------------------------------------------------------------------------
(* controller/core.ts: onCronJob, one action per await. *)

NoChatIds == << >>

CronThrow(msg) ==
    /\ cronPc' = "done"
    /\ cronOutcome' = "threw"
    /\ cronError' = msg

\* for (const chatId of chatIds): the loop goes to position i, or ends after the last chat.
CronLoop(ids, i) ==
    IF i <= Len(ids)
    THEN /\ cronPc' = "checkHistory"
         /\ cronIndex' = i
         /\ UNCHANGED << cronOutcome, cronError >>
    ELSE /\ cronPc' = "done"
         /\ cronIndex' = i
         /\ cronOutcome' = "returned"
         /\ cronError' = ""

\* if (history.length === 0) continue;
IsEmptyHistoryNever(h) == FALSE

IsEmptyHistory(h) == Len(h) = 0

\* The key of the chat the loop is at.
CronKey == generateKeyChat(chatIds[cronIndex])

\* cron.schedule('59 23 * * *', () => onCronJob(storage, bot)):
\* const chatIds = await dataUtils.getActiveChats(storage)
onCronJob ==
    /\ cronPc = "idle"
    /\ nCronRuns < MaxCronRuns
    /\ nCronRuns' = nCronRuns + 1
    /\ \/ \E ids \in getActiveChats :
            /\ chatIds' = ids
            /\ CronLoop(ids, 1)
       \/ /\ CronThrow(ErrStore)
          /\ UNCHANGED << chatIds, cronIndex >>
    /\ UNCHANGED << checked, cronHistory, cronSummary, cronGenerateCalls, apiCalls >>
    /\ UNCHANGED << envVars, sideVars, utilVars, storeVars, routerVars, layerVars >>

\* const history = await dataUtils.getHistory(storage, generateKeyChat(chatId));
\* if (history.length === 0) continue;
CronCheckHistory ==
    /\ cronPc = "checkHistory"
    /\ \/ /\ checked' = Append(checked, Len(getHistory(CronKey)))
          /\ IF IsEmptyHistory(getHistory(CronKey))
             THEN CronLoop(chatIds, cronIndex + 1)
             ELSE /\ cronPc' = "getHistory"
                  /\ UNCHANGED << cronIndex, cronOutcome, cronError >>
       \/ /\ CronThrow(ErrStore)
          /\ UNCHANGED << checked, cronIndex >>
    /\ UNCHANGED << chatIds, cronHistory, cronSummary, cronGenerateCalls, apiCalls, nCronRuns >>
    /\ UNCHANGED << envVars, sideVars, utilVars, storeVars, routerVars, layerVars >>

\* generate_summary: const history = await dataUtils.getHistory(storage, key)
CronGetHistory ==
    /\ cronPc = "getHistory"
    /\ \/ /\ cronHistory' = getHistory(CronKey)
          /\ cronPc' = "generate"
          /\ UNCHANGED << cronOutcome, cronError >>
       \/ /\ CronThrow(ErrStore)
          /\ UNCHANGED cronHistory
    /\ UNCHANGED << chatIds, cronIndex, checked, cronSummary, cronGenerateCalls, apiCalls,
                    nCronRuns >>
    /\ UNCHANGED << envVars, sideVars, utilVars, storeVars, routerVars, layerVars >>

\* generate_summary: const m = await generate([...]); return m.content
CronGenerate ==
    /\ cronPc = "generate"
    /\ cronGenerateCalls' = Append(cronGenerateCalls, ConversationRequest(cronHistory))
    /\ \/ /\ \E c \in Summaries : cronSummary' = c
          /\ cronPc' = "sendMessage"
          /\ UNCHANGED << cronOutcome, cronError >>
       \/ /\ CronThrow(ErrProvider)
          /\ UNCHANGED cronSummary
    /\ UNCHANGED << chatIds, cronIndex, checked, cronHistory, apiCalls, nCronRuns >>
    /\ UNCHANGED << envVars, sideVars, utilVars, storeVars, routerVars, layerVars >>

\* The call bot.api.sendMessage(chatId, summary).
SendMessageCall(chatId, content) ==
    [ method |-> "sendMessage", chatId |-> chatId, text |-> content ]

\* await bot.api.sendMessage(chatId, summary), then the next chat.
CronSendMessage ==
    /\ cronPc = "sendMessage"
    /\ apiCalls' = Append(apiCalls, SendMessageCall(chatIds[cronIndex], cronSummary))
    /\ \/ CronLoop(chatIds, cronIndex + 1)
       \/ /\ CronThrow(ErrSend)
          /\ UNCHANGED cronIndex
    /\ UNCHANGED << chatIds, checked, cronHistory, cronSummary, cronGenerateCalls, nCronRuns >>
    /\ UNCHANGED << envVars, sideVars, utilVars, storeVars, routerVars, layerVars >>

\* The promise of onCronJob has settled; the next run starts with fresh locals.
CronSettle ==
    /\ cronPc = "done"
    /\ cronPc' = "idle"
    /\ chatIds' = NoChatIds
    /\ cronIndex' = 0
    /\ checked' = << >>
    /\ cronHistory' = << >>
    /\ cronSummary' = ""
    /\ cronGenerateCalls' = << >>
    /\ apiCalls' = << >>
    /\ cronOutcome' = "running"
    /\ cronError' = ""
    /\ UNCHANGED nCronRuns
    /\ UNCHANGED << envVars, sideVars, utilVars, storeVars, routerVars, layerVars >>

(* utils/llm.ts: generate() picks the backend from the environment. *)

\* The settings of the variables generate() tests ("" is unset).
LlmSettings ==
    [ OPENAI_API_KEY        : { "", "sk" },
      CLOUDFLARE_ACCOUNT_ID : { "", "acc" },
      CLOUDFLARE_AUTH_KEY   : { "", "auth" },
      CLOUDFLARE_MODEL      : { "", "cfm" },
      OLLAMA_URI            : { "", "http://o" } ]

\* The environment of a bot that uses OpenAI.
OpenAiOnly ==
    [ OPENAI_API_KEY |-> "sk", CLOUDFLARE_ACCOUNT_ID |-> "", CLOUDFLARE_AUTH_KEY |-> "",
      CLOUDFLARE_MODEL |-> "", OLLAMA_URI |-> "" ]

ErrNoLlm == "No available LLM found."

\* A chain that tests OLLAMA_URI before the other two.
SelectBackendOllamaFirst(env) ==
    IF env.OLLAMA_URI # "" THEN "ollama"
    ELSE IF env.OPENAI_API_KEY # "" THEN "openai"
    ELSE IF /\ env.CLOUDFLARE_ACCOUNT_ID # ""
            /\ env.CLOUDFLARE_AUTH_KEY # ""
            /\ env.CLOUDFLARE_MODEL # "" THEN "cloudflare"
    ELSE ""

\* The if / else if chain of generate(): the backend it calls, "" when it throws.
SelectBackend(env) ==
    IF env.OPENAI_API_KEY # "" THEN "openai"
    ELSE IF /\ env.CLOUDFLARE_ACCOUNT_ID # ""
            /\ env.CLOUDFLARE_AUTH_KEY # ""
            /\ env.CLOUDFLARE_MODEL # "" THEN "cloudflare"
    ELSE IF env.OLLAMA_URI # "" THEN "ollama"
    ELSE ""

\* await generate(messages): the chosen backend returns a message or rejects;
\* without a backend generate() throws before any call.
generate ==
    /\ Len(generated) < MaxGenerate
    /\ LET backend == SelectBackend(envLlm) IN
       IF backend = ""
       THEN generated' = Append(generated, [ backends |-> << >>, outcome |-> "threw",
                                             value |-> ErrNoLlm ])
       ELSE \/ \E c \in Summaries :
                 generated' = Append(generated, [ backends |-> << backend >>,
                                                  outcome |-> "returned", value |-> c ])
            \/ generated' = Append(generated, [ backends |-> << backend >>,
                                                outcome |-> "threw", value |-> ErrProvider ])
    /\ UNCHANGED << envVars, sideVars, storeVars, routerVars, cronVars, layerVars,
                    sttVars, storageVars, socketVars >>

-----------------------------------------------------------------------------
(* utils/stt.ts: the transcription wrappers around @derogab/stt-proxy. *)

\* null
Null == [ isNull |-> TRUE, text |-> "" ]

\* What the proxy's transcribe / transcribeBuffer may do: resolve with a text,
\* resolve with an empty or missing text, or reject.
ProxyOutcomes == { [ threw |-> FALSE, text |-> "hey" ],
                   [ threw |-> FALSE, text |-> "" ],
                   [ threw |-> TRUE,  text |-> "" ] }

\* result.text || null
TextOrNull(text) == IF text # "" THEN [ isNull |-> FALSE, text |-> text ] ELSE Null

\* The body without its try / catch: the proxy's rejection leaves the wrapper.
TryTranscribeUncaught(o) ==
    [ threw |-> o.threw, result |-> IF o.threw THEN Null ELSE TextOrNull(o.text) ]

\* try { result = await proxy(...); return result.text || null } catch { return null }
TryTranscribe(o) ==
    [ threw |-> FALSE, result |-> IF o.threw THEN Null ELSE TextOrNull(o.text) ]

\* One wrapper call, as the log keeps it.
Transcription(fn, proxy, o) ==
    [ fn |-> fn, proxy |-> proxy, backend |-> o,
      threw |-> TryTranscribe(o).threw, result |-> TryTranscribe(o).result ]

\* await transcribeAudio(audioFilePath, options)
transcribeAudio ==
    /\ Len(transcribed) < MaxTranscribe
    /\ \E o \in ProxyOutcomes :
         transcribed' = Append(transcribed, Transcription("transcribeAudio", "transcribe", o))
    /\ UNCHANGED << envVars, sideVars, storeVars, routerVars, cronVars, layerVars,
                    llmVars, storageVars, socketVars >>

\* await transcribeToText(audioFilePath, options): return transcribeAudio(...)
transcribeToText ==
    /\ Len(transcribed) < MaxTranscribe
    /\ \E o \in ProxyOutcomes :
         transcribed' = Append(transcribed, Transcription("transcribeToText", "transcribe", o))
    /\ UNCHANGED << envVars, sideVars, storeVars, routerVars, cronVars, layerVars,
                    llmVars, storageVars, socketVars >>

\* await transcribeBuffer(audioBuffer, fileExtension, options)
transcribeBuffer ==
    /\ Len(transcribed) < MaxTranscribe
    /\ \E o \in ProxyOutcomes :
         transcribed' = Append(transcribed,
                               Transcription("transcribeBuffer", "transcribeBuffer", o))
    /\ UNCHANGED << envVars, sideVars, storeVars, routerVars, cronVars, layerVars,
                    llmVars, storageVars, socketVars >>

-----------------------------------------------------------------------------
(* utils/data.ts: the Storage class.  Its methods are async: a call waits at  *)
(* each await for the client's promise, which resolves or rejects, and other  *)
(* calls run meanwhile.                                                       *)

\* No Storage call has completed yet.
NoStorageCall == [ op |-> "none", outcome |-> "none", at |-> "", before |-> 0, after |-> 0,
                   created |-> 0, flushed |-> FALSE, used |-> 0 ]

\* A call of method op begins: `before` is this.client as the call finds it.
NewCall(op) == [ id |-> nStorageCalls + 1, op |-> op, at |-> "", target |-> 0,
                 before |-> client, created |-> 0, flushed |-> FALSE, used |-> 0 ]

\* The call is over; `after` is this.client as the call leaves it.
Complete(call, result) ==
    /\ storageDone' = [ op |-> call.op, outcome |-> result, at |-> call.at,
                        before |-> call.before, after |-> client',
                        created |-> call.created, flushed |-> call.flushed,
                        used |-> call.used ]
    /\ storageCalls' = { c \in storageCalls : c.id # call.id }

\* The call waits for the promise of method `at` of client `target`.
Await(call, at, target) ==
    /\ storageCalls' = { c \in storageCalls : c.id # call.id }
                         \cup { [ call EXCEPT !.at = at, !.target = target ] }
    /\ UNCHANGED storageDone

\* After await storage.connect(): connect() itself is over, a store operation
\* goes on to storage.client?.lRange(key, 0, -1).
AfterConnect(call) ==
    IF call.op = "connect"
    THEN Complete(call, "returned")
    ELSE Await([ call EXCEPT !.used = client' ], "lRange", client')

\* connect() that makes a client whether or not there is one.
ConnectAlways(call) ==
    /\ nClients' = nClients + 1
    /\ UNCHANGED client
    /\ Await([ call EXCEPT !.created = nClients + 1 ], "connect", nClients + 1)

\* connect(): if (this.client) return; else await createClient({...}).connect()
Connect(call) ==
    IF client # 0
    THEN /\ UNCHANGED << client, nClients >>
         /\ AfterConnect(call)
    ELSE /\ nClients' = nClients + 1
         /\ UNCHANGED client
         /\ Await([ call EXCEPT !.created = nClients + 1 ], "connect", nClients + 1)

\* disconnect(): await this.client?.disconnect(); this.client = null
Disconnect(call) ==
    IF client = 0
    THEN /\ client' = 0
         /\ Complete(call, "returned")
    ELSE /\ UNCHANGED client
         /\ Await(call, "disconnect", client)

\* await storage.connect()
StorageConnect ==
    /\ nStorageCalls < MaxStorageCalls
    /\ nStorageCalls' = nStorageCalls + 1
    /\ Connect(NewCall("connect"))
    /\ UNCHANGED openClients
    /\ UNCHANGED << envVars, sideVars, storeVars, routerVars, cronVars, layerVars,
                    llmVars, sttVars, socketVars >>

\* A store operation, here getHistory(storage, key): await storage.connect() first.
StorageGetHistory ==
    /\ nStorageCalls < MaxStorageCalls
    /\ nStorageCalls' = nStorageCalls + 1
    /\ Connect(NewCall("getHistory"))
    /\ UNCHANGED openClients
    /\ UNCHANGED << envVars, sideVars, storeVars, routerVars, cronVars, layerVars,
                    llmVars, sttVars, socketVars >>

\* await storage.disconnect()
StorageDisconnect ==
    /\ nStorageCalls < MaxStorageCalls
    /\ nStorageCalls' = nStorageCalls + 1
    /\ Disconnect(NewCall("disconnect"))
    /\ UNCHANGED << nClients, openClients >>
    /\ UNCHANGED << envVars, sideVars, storeVars, routerVars, cronVars, layerVars,
                    llmVars, sttVars, socketVars >>

\* await storage.destroy(): await this.client?.flushAll(); await this.disconnect()
StorageDestroy ==
    /\ nStorageCalls < MaxStorageCalls
    /\ nStorageCalls' = nStorageCalls + 1
    /\ IF client = 0
       THEN Disconnect(NewCall("destroy"))
       ELSE /\ UNCHANGED client
            /\ Await(NewCall("destroy"), "flushAll", client)
    /\ UNCHANGED << nClients, openClients >>
    /\ UNCHANGED << envVars, sideVars, storeVars, routerVars, cronVars, layerVars,
                    llmVars, sttVars, socketVars >>

\* The promise a call waits for resolves, and the call runs to its next await
\* or to its end.
StorageResolve ==
    /\ \E call \in storageCalls :
         \/ /\ call.at = "connect"
            /\ client' = call.target
            /\ openClients' = openClients \cup { call.target }
            /\ AfterConnect(call)
         \/ /\ call.at = "lRange"
            /\ UNCHANGED << client, openClients >>
            /\ Complete(call, "returned")
         \/ /\ call.at = "flushAll"
            /\ UNCHANGED openClients
            /\ Disconnect([ call EXCEPT !.flushed = TRUE ])
         \/ /\ call.at = "disconnect"
            /\ client' = 0
            /\ openClients' = openClients \ { call.target }
            /\ Complete(call, "returned")
    /\ UNCHANGED << nClients, nStorageCalls >>
    /\ UNCHANGED << envVars, sideVars, storeVars, routerVars, cronVars, layerVars,
                    llmVars, sttVars, socketVars >>

\* The promise a call waits for rejects: no method of Storage catches, so the
\* call ends there with the error.
StorageReject ==
    /\ \E call \in storageCalls :
         /\ UNCHANGED << client, openClients >>
         /\ Complete(call, "threw")
    /\ UNCHANGED << nClients, nStorageCalls >>
    /\ UNCHANGED << envVars, sideVars, storeVars, routerVars, cronVars, layerVars,
                    llmVars, sttVars, socketVars >>

-----------------------------------------------------------------------------
(* utils/data.ts: the reconnectStrategy handed to createClient, and the       *)
(* client's socket that consults it after every failed connection attempt.    *)

RetryCeiling == 10

RetryStep == 100

RetryCap == 3000

Min(a, b) == IF a <= b THEN a ELSE b

\* A strategy without the test of retries.
reconnectStrategyForever(n) ==
    [ retry |-> TRUE, delay |-> Min(n * RetryStep, RetryCap) ]

\* A strategy that waits a second more after every attempt.
reconnectStrategySteep(n) ==
    IF n > RetryCeiling
    THEN [ retry |-> FALSE, delay |-> 0 ]
    ELSE [ retry |-> TRUE, delay |-> n * 1000 ]

\* (retries) => { if (retries > 10) return false; return Math.min(retries * 100, 3000) }
reconnectStrategy(n) ==
    IF n > RetryCeiling
    THEN [ retry |-> FALSE, delay |-> 0 ]
    ELSE [ retry |-> TRUE, delay |-> Min(n * RetryStep, RetryCap) ]

NoStrategyCall == [ called |-> FALSE, retries |-> 0, result |-> [ retry |-> FALSE, delay |-> 0 ] ]

\* .connect(): the socket starts connecting with no failed attempt.
SocketConnect ==
    /\ socket = "idle"
    /\ socket' = "connecting"
    /\ retries' = 0
    /\ delays' = << >>
    /\ UNCHANGED strategyResult
    /\ UNCHANGED << envVars, sideVars, storeVars, routerVars, cronVars, layerVars,
                    llmVars, sttVars, storageVars >>

\* A connection attempt succeeds.
SocketReady ==
    /\ socket = "connecting"
    /\ socket' = "ready"
    /\ UNCHANGED << retries, delays, strategyResult >>
    /\ UNCHANGED << envVars, sideVars, storeVars, routerVars, cronVars, layerVars,
                    llmVars, sttVars, storageVars >>

\* A connection attempt fails: the socket asks reconnectStrategy(retries), and
\* waits the delay before the next attempt or gives up.
SocketRetry ==
    /\ socket = "connecting"
    /\ retries <= MaxRetries
    /\ LET r == reconnectStrategy(retries) IN
       IF r.retry
       THEN /\ delays' = Append(delays, r.delay)
            /\ retries' = retries + 1
            /\ UNCHANGED socket
       ELSE /\ socket' = "ended"
            /\ UNCHANGED << retries, delays >>
    /\ UNCHANGED strategyResult
    /\ UNCHANGED << envVars, sideVars, storeVars, routerVars, cronVars, layerVars,
                    llmVars, sttVars, storageVars >>

\* The connection is lost: the socket connects again, counting from 0.
SocketError ==
    /\ socket = "ready"
    /\ socket' = "connecting"
    /\ retries' = 0
    /\ delays' = << >>
    /\ UNCHANGED strategyResult
    /\ UNCHANGED << envVars, sideVars, storeVars, routerVars, cronVars, layerVars,
                    llmVars, sttVars, storageVars >>

\* reconnectStrategy(n) for any retry count n.
CallReconnectStrategy ==
    /\ \E n \in 0..MaxRetries :
         strategyResult' = [ called |-> TRUE, retries |-> n, result |-> reconnectStrategy(n) ]
    /\ UNCHANGED << socket, retries, delays >>
    /\ UNCHANGED << envVars, sideVars, storeVars, routerVars, cronVars, layerVars,
                    llmVars, sttVars, storageVars >>

-----------------------------------------------------------------------------
\* The result registers of the store layer before any call, and once another
\* call has been made since.
NoRead == [ key |-> "", value |-> << >>, appended |-> << >> ]

NoActive == [ done |-> FALSE, value |-> << >>, keys |-> { } ]

-----------------------------------------------------------------------------
(* utils/data.ts: the business-connection binding of a chat, a Redis string   *)
(* under 'business-connection:' + chatId written by SET and read by GET.      *)

\* Chat identifiers bindings are saved and read for.
BindingChatIds == { "1", "chat:1" }

\* Tokens handed to saveBusinessConnectionId: two tokens and the empty string.
BindingTokens == { "", "bc1", "bc2" }

\* 'business-connection:' + chatId
BindingKey(chatId) == "business-connection:" \o chatId

\* SET that keeps the value a key already has.
SetIfAbsent(key, value) ==
    IF key \in DOMAIN bindings
    THEN bindings
    ELSE [ k \in DOMAIN bindings \cup { key } |-> IF k = key THEN value ELSE bindings[k] ]

\* client.set(key, value): the key holds value, whatever it held before.
Set(key, value) ==
    [ k \in DOMAIN bindings \cup { key } |-> IF k = key THEN value ELSE bindings[k] ]

\* client.get(key): the value of the key, null when the key does not exist.
Get(key) ==
    IF key \in DOMAIN bindings THEN [ isNull |-> FALSE, text |-> bindings[key] ] ELSE Null

\* value || null: null and the empty string both give null.
ValueOrNull(value) == IF value.isNull \/ value.text = "" THEN Null ELSE value

\* No getBusinessConnectionId call has been made yet.
NoBinding == [ called |-> FALSE, chatId |-> "", value |-> Null, saved |-> << >>,
               keys |-> { }, nAppends |-> 0 ]

\* The tokens saved for a chat so far, oldest first.
SavedFor(chatId) == IF chatId \in DOMAIN savedTokens THEN savedTokens[chatId] ELSE << >>

\* await saveBusinessConnectionId(storage, chatId, businessConnectionId)
saveBusinessConnectionId ==
    /\ nSaves < MaxSaves
    /\ \E chatId \in BindingChatIds, businessConnectionId \in BindingTokens :
         /\ bindings' = Set(BindingKey(chatId), businessConnectionId)
         /\ savedTokens' = [ c \in DOMAIN savedTokens \cup { chatId } |->
                               IF c = chatId
                               THEN Append(SavedFor(chatId), businessConnectionId)
                               ELSE savedTokens[c] ]
    /\ nSaves' = nSaves + 1
    /\ UNCHANGED << lastBinding, whisperVars,
                    envVars, utilVars, storeVars, routerVars, cronVars, layerVars >>

\* await getBusinessConnectionId(storage, chatId)
getBusinessConnectionId ==
    /\ \E chatId \in BindingChatIds :
         lastBinding' = [ called |-> TRUE,
                          chatId |-> chatId,
                          value  |-> ValueOrNull(Get(BindingKey(chatId))),
                          saved  |-> SavedFor(chatId),
                          keys     |-> DOMAIN lists,
                          nAppends |-> nAppends ]
    /\ UNCHANGED << bindings, savedTokens, nSaves, whisperVars,
                    envVars, utilVars, storeVars, routerVars, cronVars, layerVars >>

-----------------------------------------------------------------------------
(* The local-Whisper transcriber: a module-level Whisper instance shared by   *)
(* its async functions.  A call waits at each await for the promise of the    *)
(* Whisper instance, and other calls run meanwhile.                           *)

\* WHISPER_CPP_MODEL_PATH: unset, or the path of one of two model files.
ModelPaths == { "", "/m1.bin", "/m2.bin" }

\* The text the segments of a transcription join to: some text, or none.
SegmentTexts == { "hey", "" }

\* No transcriber call has ended yet.
NoWhisperCall == [ fn |-> "none", outcome |-> "none", result |-> Null, temp |-> 0 ]

\* A call of fn begins; temp is the temporary file it wrote (0 is none) and
\* modelPath the value getWhisperModelPath() gives it.
NewWhisperCall(fn, temp) ==
    [ id |-> nWhisperCalls + 1, fn |-> fn, at |-> "", target |-> 0, temp |-> temp,
      modelPath |-> envWhisperModelPath ]

\* The call waits for the promise of method `at` of instance `target`; files
\* are the temporary files on disk.
WhisperAwait(call, at, target, files) ==
    /\ whisperCalls' = { c \in whisperCalls : c.id # call.id }
                         \cup { [ call EXCEPT !.at = at, !.target = target ] }
    /\ tempFiles' = files
    /\ UNCHANGED whisperDone

\* A clean-up that runs only when a text came back.
RemoveTempOnText(files, temp, result) ==
    IF result.isNull THEN files ELSE files \ { temp }

\* finally { if (fs.existsSync(tempFilePath)) fs.unlinkSync(tempFilePath) }
RemoveTemp(files, temp, result) == files \ { temp }

\* transcribeAudio returns result.  For transcribeBuffer the finally block
\* follows: the temporary file is removed and the result returned, or
\* unlinkSync throws and the call ends with that error.
Finish(call, result, files) ==
    /\ whisperCalls' = { c \in whisperCalls : c.id # call.id }
    /\ IF call.fn = "transcribeBuffer"
       THEN \/ /\ tempFiles' = RemoveTemp(files, call.temp, result)
               /\ whisperDone' = [ fn |-> call.fn, outcome |-> "returned",
                                   result |-> result, temp |-> call.temp ]
            \/ /\ tempFiles' = files
               /\ whisperDone' = [ fn |-> call.fn, outcome |-> "threw",
                                   result |-> Null, temp |-> call.temp ]
       ELSE /\ tempFiles' = files
            /\ whisperDone' = [ fn |-> call.fn, outcome |-> "returned",
                                result |-> result, temp |-> call.temp ]

\* const pcm = audioToPcm(audioFilePath): the conversion fails (null, or an
\* error the catch turns into null), or the call goes on to
\* await whisper.transcribe(pcm, ...).
Convert(call, whisper, files) ==
    \/ Finish(call, Null, files)
    \/ WhisperAwait(call, "transcribe", whisper, files)

\* whisperInstance = new Whisper(modelPath, ...); currentModelPath = modelPath,
\* after the instances in freed have been released.
NewWhisper(modelPath, freed) ==
    /\ whisperInstance' = nInstances + 1
    /\ currentModelPath' = modelPath
    /\ nInstances' = nInstances + 1
    /\ liveInstances' = (liveInstances \ freed) \cup { nInstances + 1 }

\* getWhisperInstance(options) and what transcribeAudio does with its result.
getWhisperInstance(call, files) ==
    IF whisperInstance # 0 /\ currentModelPath # call.modelPath
    THEN /\ WhisperAwait(call, "free", whisperInstance, files)
         /\ UNCHANGED << whisperInstance, currentModelPath, nInstances, liveInstances >>
    ELSE IF whisperInstance = 0
    THEN /\ NewWhisper(call.modelPath, { })
         /\ Convert(call, nInstances + 1, files)
    ELSE /\ UNCHANGED << whisperInstance, currentModelPath, nInstances, liveInstances >>
         /\ Convert(call, whisperInstance, files)

\* The body of transcribeAudio for a file that exists.
TranscribeFile(call, files) ==
    IF call.modelPath = ""
    THEN /\ Finish(call, Null, files)
         /\ UNCHANGED << whisperInstance, currentModelPath, nInstances, liveInstances >>
    ELSE getWhisperInstance(call, files)

\* process.env.WHISPER_CPP_MODEL_PATH is set to another value.
SetModelPath ==
    /\ \E p \in ModelPaths \ { envWhisperModelPath } : envWhisperModelPath' = p
    /\ UNCHANGED << whisperInstance, currentModelPath, liveInstances, nInstances,
                    whisperCalls, nWhisperCalls, tempFiles, whisperDone >>
    /\ UNCHANGED << bindingVars, envVars, utilVars, storeVars, routerVars, cronVars,
                    layerVars >>

\* transcribeAudio(audioFilePath, options), also reached as transcribeToText,
\* for a file that exists or does not.
localTranscribeAudio ==
    /\ nWhisperCalls < MaxWhisperCalls
    /\ nWhisperCalls' = nWhisperCalls + 1
    /\ \E exists \in BOOLEAN :
         IF exists
         THEN TranscribeFile(NewWhisperCall("transcribeAudio", 0), tempFiles)
         ELSE /\ Finish(NewWhisperCall("transcribeAudio", 0), Null, tempFiles)
              /\ UNCHANGED << whisperInstance, currentModelPath, nInstances, liveInstances >>
    /\ UNCHANGED envWhisperModelPath
    /\ UNCHANGED << bindingVars, envVars, utilVars, storeVars, routerVars, cronVars,
                    layerVars >>

\* transcribeBuffer(audioBuffer, fileExtension, options): writeFileSync writes
\* the temporary file or throws, then transcribeToText(tempFilePath, options).
localTranscribeBuffer ==
    /\ nWhisperCalls < MaxWhisperCalls
    /\ nWhisperCalls' = nWhisperCalls + 1
    /\ LET call == NewWhisperCall("transcribeBuffer", nWhisperCalls + 1) IN
       \/ TranscribeFile(call, tempFiles \cup { call.temp })
       \/ /\ whisperDone' = [ fn |-> call.fn, outcome |-> "threw", result |-> Null,
                              temp |-> call.temp ]
          /\ UNCHANGED << whisperInstance, currentModelPath, nInstances, liveInstances,
                          whisperCalls, tempFiles >>
    /\ UNCHANGED envWhisperModelPath
    /\ UNCHANGED << bindingVars, envVars, utilVars, storeVars, routerVars, cronVars,
                    layerVars >>

\* freeWhisper(): if (whisperInstance) { await whisperInstance.free(); ... }
localFreeWhisper ==
    /\ nWhisperCalls < MaxWhisperCalls
    /\ nWhisperCalls' = nWhisperCalls + 1
    /\ IF whisperInstance # 0
       THEN WhisperAwait(NewWhisperCall("freeWhisper", 0), "freeWhisper", whisperInstance,
                         tempFiles)
       ELSE /\ whisperDone' = [ fn |-> "freeWhisper", outcome |-> "returned",
                                result |-> Null, temp |-> 0 ]
            /\ UNCHANGED << whisperCalls, tempFiles >>
    /\ UNCHANGED << envWhisperModelPath, whisperInstance, currentModelPath, nInstances,
                    liveInstances >>
    /\ UNCHANGED << bindingVars, envVars, utilVars, storeVars, routerVars, cronVars,
                    layerVars >>

\* The promise a call waits for resolves, and the call runs to its next await
\* or to its end.
WhisperResolve ==
    /\ \E call \in whisperCalls :
         \/ /\ call.at = "free"
            /\ NewWhisper(call.modelPath, { call.target })
            /\ Convert(call, nInstances + 1, tempFiles)
         \/ /\ call.at = "transcribe"
            /\ \E text \in SegmentTexts : Finish(call, TextOrNull(text), tempFiles)
            /\ UNCHANGED << whisperInstance, currentModelPath, nInstances, liveInstances >>
         \/ /\ call.at = "freeWhisper"
            /\ whisperInstance' = 0
            /\ currentModelPath' = ""
            /\ liveInstances' = liveInstances \ { call.target }
            /\ whisperCalls' = { c \in whisperCalls : c.id # call.id }
            /\ whisperDone' = [ fn |-> "freeWhisper", outcome |-> "returned",
                                result |-> Null, temp |-> 0 ]
            /\ UNCHANGED << nInstances, tempFiles >>
    /\ UNCHANGED << envWhisperModelPath, nWhisperCalls >>
    /\ UNCHANGED << bindingVars, envVars, utilVars, storeVars, routerVars, cronVars,
                    layerVars >>

\* whisper.transcribe or task.result rejects: the catch of transcribeAudio
\* turns the error into null.
WhisperReject ==
    /\ \E call \in whisperCalls :
         /\ call.at = "transcribe"
         /\ Finish(call, Null, tempFiles)
    /\ UNCHANGED << envWhisperModelPath, whisperInstance, currentModelPath, nInstances,
                    liveInstances, nWhisperCalls >>
    /\ UNCHANGED << bindingVars, envVars, utilVars, storeVars, routerVars, cronVars,
                    layerVars >>

-----------------------------------------------------------------------------
(* The bot: configuration read at start, an empty store, no event in flight. *)

\* process.env.CRON_SCHEDULE as the README documents it: unset, or 'never'.
CronScheduleSettings == { "", "never" }

\* Everything but the environment.
InitState ==
    /\ lists = << >>
    /\ ttl = << >>
    /\ idle = << >>
    /\ age = << >>
    /\ pc = "idle"
    /\ ev = NoEvent
    /\ history = << >>
    /\ summary = ""
    /\ getCalls = << >>
    /\ updateCalls = << >>
    /\ generateCalls = << >>
    /\ replyCalls = << >>
    /\ typingCalls = << >>
    /\ outcome = "running"
    /\ error = ""
    /\ nEvents = 0
    /\ appended = << >>
    /\ cronPc = "idle"
    /\ chatIds = NoChatIds
    /\ cronIndex = 0
    /\ checked = << >>
    /\ cronHistory = << >>
    /\ cronSummary = ""
    /\ cronGenerateCalls = << >>
    /\ apiCalls = << >>
    /\ cronOutcome = "running"
    /\ cronError = ""
    /\ nCronRuns = 0
    /\ nAppends = 0
    /\ lastRead = NoRead
    /\ pending = { }
    /\ lastActive = NoActive
    /\ pollingRunning = TRUE
    /\ typingOutcome = "none"
    /\ generated = << >>
    /\ transcribed = << >>
    /\ client = 0
    /\ nClients = 0
    /\ storageCalls = { }
    /\ storageDone = NoStorageCall
    /\ nStorageCalls = 0
    /\ socket = "idle"
    /\ retries = 0
    /\ delays = << >>
    /\ strategyResult = NoStrategyCall
    /\ openClients = { }
    /\ bindings = << >>
    /\ savedTokens = << >>
    /\ nSaves = 0
    /\ lastBinding = NoBinding
    /\ envWhisperModelPath = ""
    /\ whisperInstance = 0
    /\ currentModelPath = ""
    /\ liveInstances = { }
    /\ nInstances = 0
    /\ whisperCalls = { }
    /\ nWhisperCalls = 0
    /\ tempFiles = { }
    /\ whisperDone = NoWhisperCall

Init ==
    /\ envWhitelistedChats \in WhitelistSettings
    /\ envMsgLengthLimit \in MsgLengthLimitSettings
    /\ envCronSchedule = ""
    /\ envLlm = OpenAiOnly
    /\ InitState

\* The message handler, one update at a time as bot.start() delivers them, and
\* the clock of the store.  The scheduler is composed with the store in SpecCron:
\* it shares nothing with the handler but the store, which it only reads.
Next ==
    \/ onMessageReceived
    \/ SendChatAction
    \/ SummaryGetHistory
    \/ SummaryGenerate
    \/ ReplySummary
    \/ SaveMessage
    \/ GenerateDigest
    \/ ReplyDigest
    \/ Settle
    \/ Tick

Spec == Init /\ [][Next]_vars

-----------------------------------------------------------------------------
(* utils/data.ts called directly: the store layer under arbitrary arguments. *)

\* Chat identifiers handed to generateKeyChat.
LayerChatIds == { "1", "chat:1" }

LayerKeys == { generateKeyChat(c) : c \in LayerChatIds }

LayerUsernames == { "al", "456" }

LayerMessages == { "hi", "#", "###", "a###b" }

\* updateHistory(storage, key, username, message) is called: the call waits for
\* storage.connect() and has not yet reached the store.
CallUpdateHistory ==
    /\ nAppends < MaxAppends
    /\ \E k \in LayerKeys, u \in LayerUsernames, m \in LayerMessages :
         pending' = pending \cup { [ id |-> nAppends + 1, key |-> k, username |-> u,
                                     message |-> m ] }
    /\ nAppends' = nAppends + 1
    /\ UNCHANGED << lastRead, lastActive, envVars, sideVars, utilVars, storeVars, routerVars, cronVars >>

\* The store executes the multi() of one of the calls in flight, in any order.
ExecUpdateHistory ==
    /\ \E call \in pending :
         /\ updateHistory(call.key, call.username, call.message)
         /\ pending' = pending \ { call }
    /\ UNCHANGED << nAppends, lastRead, lastActive, envVars, sideVars, utilVars, routerVars, cronVars >>

\* await getHistory(storage, key)
CallGetHistory ==
    /\ \E k \in LayerKeys :
         lastRead' = [ key      |-> k,
                       value    |-> getHistory(k),
                       appended |-> IF k \in DOMAIN appended THEN appended[k] ELSE << >> ]
    /\ lastActive' = NoActive
    /\ UNCHANGED << nAppends, pending, envVars, sideVars, utilVars, storeVars, routerVars, cronVars >>

\* await getActiveChats(storage)
CallGetActiveChats ==
    /\ \E ids \in getActiveChats :
         lastActive' = [ done |-> TRUE, value |-> ids, keys |-> DOMAIN lists ]
    /\ lastRead' = NoRead
    /\ UNCHANGED << nAppends, pending, envVars, sideVars, utilVars, storeVars, routerVars, cronVars >>

\* utils/data.ts and onCronJob read neither WHITELISTED_CHATS nor MSG_LENGTH_LIMIT.
InitStore ==
    /\ Init
    /\ envWhitelistedChats = ""
    /\ ~ envMsgLengthLimit.isSet

NextStore ==
    \/ CallUpdateHistory
    \/ ExecUpdateHistory
    \/ CallGetHistory
    \/ CallGetActiveChats
    \/ Tick

SpecStore == InitStore /\ [][NextStore]_vars

-----------------------------------------------------------------------------
(* The scheduler: onCronJob runs while messages are being appended to the     *)
(* store and keys expire.  A message handler reaches the store through        *)
(* updateHistory only, so its appends are the calls of the store layer.       *)

\* Contents stored while the scheduler runs: a plain one and one holding "###".
StoredMessages == { "hi", "a###b" }

\* A message handler's await dataUtils.updateHistory(storage, key, from, text) completes.
StoreMessage ==
    /\ nAppends < MaxAppends
    /\ \E c \in LayerChatIds, m \in StoredMessages :
         updateHistory(generateKeyChat(c), "al", m)
    /\ nAppends' = nAppends + 1
    /\ UNCHANGED << lastRead, pending, lastActive, envVars, sideVars, utilVars, routerVars, cronVars >>

NextCron ==
    \/ onCronJob
    \/ CronCheckHistory
    \/ CronGetHistory
    \/ CronGenerate
    \/ CronSendMessage
    \/ CronSettle
    \/ StoreMessage
    \/ Tick

\* The scheduler's environment: CRON_SCHEDULE in either setting.
InitCron ==
    /\ envWhitelistedChats = ""
    /\ envMsgLengthLimit = [ isSet |-> FALSE, value |-> "" ]
    /\ envCronSchedule \in CronScheduleSettings
    /\ envLlm = OpenAiOnly
    /\ InitState

SpecCron == InitCron /\ [][NextCron]_vars

-----------------------------------------------------------------------------
(* generate() under every setting of its environment. *)

InitLlm ==
    /\ envWhitelistedChats = ""
    /\ envMsgLengthLimit = [ isSet |-> FALSE, value |-> "" ]
    /\ envCronSchedule = ""
    /\ envLlm \in LlmSettings
    /\ InitState

NextLlm == generate

SpecLlm == InitLlm /\ [][NextLlm]_vars

-----------------------------------------------------------------------------
(* The transcription wrappers called in any order. *)

NextStt ==
    \/ transcribeAudio
    \/ transcribeToText
    \/ transcribeBuffer

SpecStt == InitStore /\ [][NextStt]_vars

-----------------------------------------------------------------------------
(* One Storage instance whose methods are called in any order, also while    *)
(* earlier calls are still waiting.                                          *)

NextStorage ==
    \/ StorageConnect
    \/ StorageGetHistory
    \/ StorageDisconnect
    \/ StorageDestroy
    \/ StorageResolve
    \/ StorageReject

SpecStorage == InitStore /\ [][NextStorage]_vars

-----------------------------------------------------------------------------
(* The socket of one client, and the strategy called on its own. *)

NextSocket ==
    \/ SocketConnect
    \/ SocketReady
    \/ SocketRetry
    \/ SocketError
    \/ CallReconnectStrategy

SpecSocket == InitStore /\ [][NextSocket]_vars

-----------------------------------------------------------------------------
(* The bindings of chats whose histories are appended to and expire. *)

NextBinding ==
    \/ saveBusinessConnectionId
    \/ getBusinessConnectionId
    \/ StoreMessage
    \/ Tick

SpecBinding == InitStore /\ [][NextBinding]_vars

-----------------------------------------------------------------------------
(* The local-Whisper transcriber called while the model path changes. *)

NextWhisper ==
    \/ SetModelPath
    \/ localTranscribeAudio
    \/ localTranscribeBuffer
    \/ localFreeWhisper
    \/ WhisperResolve
    \/ WhisperReject

SpecWhisper == InitStore /\ [][NextWhisper]_vars

-----------------------------------------------------------------------------
(* The bot as index.ts starts it: the message handler and the scheduler share *)
(* the store, the handler fills it and the scheduler reads it, while keys     *)
(* expire.  The events are those of a named sender in a chat, a plain message *)
(* or a /summary command.                                                     *)

BotEvents(mid) ==
    { e \in Events(mid) : /\ e.chatId # 0
                          /\ e.from.username # ""
                          /\ e.body.text \in { "hi", "/summary 1" } }

\* bot.on('message', ...) for one of these events.
onBotMessage ==
    /\ onMessageReceived
    /\ ev' \in BotEvents(nEvents + 1)

NextBot ==
    \/ onBotMessage
    \/ SendChatAction
    \/ SummaryGetHistory
    \/ SummaryGenerate
    \/ ReplySummary
    \/ SaveMessage
    \/ Settle
    \/ onCronJob
    \/ CronCheckHistory
    \/ CronGetHistory
    \/ CronGenerate
    \/ CronSendMessage
    \/ CronSettle
    \/ Tick

\* WHITELISTED_CHATS in either setting; no MSG_LENGTH_LIMIT.
InitBot ==
    /\ envWhitelistedChats \in WhitelistSettings
    /\ envMsgLengthLimit = [ isSet |-> FALSE, value |-> "" ]
    /\ envCronSchedule = ""
    /\ envLlm = OpenAiOnly
    /\ InitState

SpecBot == InitBot /\ [][NextBot]_vars

-----------------------------------------------------------------------------
(* What the claims say of the event in flight, read off the event's fields. *)

Handling == pc # "idle"

Finished == pc = "done"

HasChat == ev.chatId # 0

HasSender == ev.from.username # "" \/ ev.from.id # 0

AllowListConfigured == envWhitelistedChats # ""

\* The chat passes the allow-list: none is configured, or "12,3" names the chat.
AllowListed == ~ AllowListConfigured \/ (envWhitelistedChats = "12,3" /\ ev.chatId \in { 12, 3 })

ChatKey == IF ev.chatId = 1 THEN "chat:1" ELSE IF ev.chatId = 12 THEN "chat:12" ELSE ""

Author == IF ev.from.username # "" THEN ev.from.username
          ELSE IF ev.from.id = 456 THEN "456" ELSE ""

BodyText == IF ev.body.text # "" THEN ev.body.text
            ELSE IF ev.body.caption # "" THEN ev.body.caption
            ELSE ev.body.fileName

BeginsWithCommand == BodyText \in { "/summary", "/summary 1" }

\* The event reaches one of the two branches.
Routed == HasChat /\ AllowListed /\ HasSender /\ BodyText # ""

\* The auto-digest threshold: the configured "2", or 1000 when none is configured.
Threshold == IF envMsgLengthLimit.isSet THEN 2 ELSE 1000

NoCalls == /\ getCalls = << >>
           /\ updateCalls = << >>
           /\ generateCalls = << >>
           /\ replyCalls = << >>
           /\ typingCalls = << >>

SavePassed == pc \in { "digest", "digestReply", "done" }

-----------------------------------------------------------------------------
(* The claims. *)

\* C1: an event with a chat id and a sender that passes the allow-list and whose
\* body text does not begin with "/summary" causes exactly one updateHistory
\* call, with the key "chat:" + chat id, the resolved author and the body text;
\* the call adds author + "###" + body text at the end of that key's list and
\* touches no other list (a rejected call leaves the lists as they were).
C1_StorageBranchAppendsOnce ==
    /\ []((Handling /\ Routed /\ ~ BeginsWithCommand) =>
            /\ pc = "updateHistory" => updateCalls = << >>
            /\ SavePassed => updateCalls = << << ChatKey, Author, BodyText >> >>
            /\ pc \in { "updateHistory", "digest", "digestReply", "done" })
    /\ [][(pc = "updateHistory" /\ pc' # "updateHistory") =>
              IF error' = ErrStore
              THEN lists' = lists
              ELSE lists' = (ChatKey :> Append(IF ChatKey \in DOMAIN lists
                                                 THEN lists[ChatKey] ELSE << >>,
                                               Author \o "###" \o BodyText)) @@ lists]_vars

C1_Witness ==
    /\ Finished /\ Routed /\ ~ BeginsWithCommand
    /\ AllowListConfigured
    /\ outcome = "returned"
    /\ updateCalls = << << "chat:12", "al", "hi" >> >>

\* C2 as stated: every command event ends with no append, exactly one
\* summarization call and exactly one reply carrying the summarization result.
C2_Original ==
    (Finished /\ Routed /\ BeginsWithCommand) =>
        /\ updateCalls = << >>
        /\ Len(generateCalls) = 1
        /\ replyCalls = << [ text |-> summary, replyTo |-> NoReplyTo ] >>

\* C2 amended: a command event never causes an append and causes at most one
\* summarization call and one reply; when the history read succeeds there is
\* exactly one summarization call (also for an empty history), and when that call
\* succeeds too exactly one reply, whose text is the returned content; when the
\* read or the summarization fails the handler fails and no reply is sent.
C2_CommandBranch ==
    (Handling /\ Routed /\ BeginsWithCommand) =>
        /\ updateCalls = << >>
        /\ Len(generateCalls) <= 1 /\ Len(replyCalls) <= 1
        /\ (Finished /\ error = ErrStore) => generateCalls = << >>
        /\ (Finished /\ error # ErrStore) =>
               generateCalls = << ConversationInstructions \o
                   [ i \in 1..Len(history) |->
                       [ role |-> "user",
                         content |-> "@" \o history[i].username \o ": " \o history[i].message ] ] >>
        /\ (Finished /\ error \in { ErrStore, ErrProvider }) =>
               outcome = "threw" /\ replyCalls = << >>
        /\ (Finished /\ error \notin { ErrStore, ErrProvider }) =>
               /\ summary \in Summaries
               /\ replyCalls = << [ text |-> summary, replyTo |-> NoReplyTo ] >>

C2_Witness ==
    /\ Finished /\ Routed /\ BeginsWithCommand
    /\ outcome = "returned"
    /\ history = << >>
    /\ Len(generateCalls) = 1
    /\ replyCalls = << [ text |-> "sumA", replyTo |-> NoReplyTo ] >>

C4_AllowList ==
    /\ (Handling /\ HasChat /\ ~ AllowListed) =>
           Finished /\ outcome = "returned" /\ error = "" /\ NoCalls
    /\ (Finished /\ HasChat /\ AllowListed) =>
           IF ~ HasSender THEN outcome = "threw" /\ NoCalls
           ELSE IF BodyText = "" THEN outcome = "returned" /\ NoCalls
           ELSE IF BeginsWithCommand THEN Len(getCalls) = 1 /\ updateCalls = << >>
           ELSE Len(updateCalls) = 1 /\ getCalls = << >>

C4_Witness ==
    /\ Finished /\ HasChat /\ HasSender /\ BodyText = "hi"
    /\ AllowListConfigured /\ ~ AllowListed
    /\ outcome = "returned" /\ NoCalls

\* C5: an event without chat id fails with 'No Chat found.', whatever the
\* allow-list and the sender, and causes no store, summarization or reply call.
C5_MissingChat ==
    (Handling /\ ~ HasChat) =>
        Finished /\ outcome = "threw" /\ error = "No Chat found." /\ NoCalls

C5_Witness ==
    /\ Finished /\ ~ HasChat /\ ~ HasSender
    /\ AllowListConfigured
    /\ outcome = "threw" /\ error = "No Chat found."

\* C6 as stated: an event with a chat id and no sender fails with 'No Message
\* Author found.' whatever the allow-list says of the chat.
C6_Original ==
    (Finished /\ HasChat /\ ~ HasSender) =>
        outcome = "threw" /\ error = "No Message Author found."

\* C6 amended: an event with a chat id and no sender fails with 'No Message Author
\* found.' when its chat passes the allow-list (none configured, or the chat is
\* named); when a configured allow-list does not name the chat the event is
\* dropped without error before the sender is looked at.
C6_MissingAuthor ==
    (Handling /\ HasChat /\ ~ HasSender) =>
        /\ Finished /\ NoCalls
        /\ IF AllowListed
           THEN outcome = "threw" /\ error = "No Message Author found."
           ELSE outcome = "returned" /\ error = ""

C6_Witness ==
    /\ Finished /\ HasChat /\ ~ HasSender
    /\ AllowListConfigured /\ AllowListed
    /\ outcome = "threw" /\ error = "No Message Author found."

\* C7: the body text is the text, else the caption, else the document's file
\* name; an event with none of the three is dropped without error or call.
C7_BodyPriority ==
    (Handling /\ HasChat /\ AllowListed /\ HasSender) =>
        LET expected == IF ev.body.text # "" THEN ev.body.text
                        ELSE IF ev.body.caption # "" THEN ev.body.caption
                        ELSE IF ev.body.fileName # "" THEN ev.body.fileName
                        ELSE "" IN
        IF expected = ""
        THEN Finished /\ outcome = "returned" /\ error = "" /\ NoCalls
        ELSE IF expected \in { "/summary", "/summary 1" }
        THEN updateCalls = << >> /\ pc \notin { "updateHistory", "digest", "digestReply" }
        ELSE /\ pc \in { "updateHistory", "digest", "digestReply", "done" }
             /\ SavePassed => Len(updateCalls) = 1 /\ updateCalls[1][3] = expected
             /\ \A i \in 1..Len(generateCalls) :
                    generateCalls[i][Len(generateCalls[i])].content = "Text:\n\n" \o expected

C7_Witness ==
    /\ Finished /\ HasChat /\ AllowListed /\ HasSender
    /\ ev.body.text = "" /\ ev.body.caption = "hey" /\ ev.body.fileName = "hi"
    /\ Len(updateCalls) = 1 /\ updateCalls[1][3] = "hey"

\* C8: the author recorded with a stored message is the sender's username when
\* there is one, and the sender id as a decimal string only when there is none.
C8_AuthorPreference ==
    (Handling /\ Routed /\ ~ BeginsWithCommand /\ SavePassed) =>
        /\ Len(updateCalls) = 1
        /\ updateCalls[1][2] = IF ev.from.username # "" THEN ev.from.username ELSE "456"
        /\ updateCalls[1][2] = "456" => ev.from.username = ""

C8_Witness ==
    /\ Finished /\ Routed /\ ~ BeginsWithCommand
    /\ ev.from.username = "" /\ ev.from.id = 456
    /\ Len(updateCalls) = 1 /\ updateCalls[1][2] = "456"
    /\ outcome = "returned"

\* C9: getHistory on a key returns exactly the (author, content) pairs appended
\* to it with updateHistory since the key was fresh, in append order.
C9_RoundTrip == lastRead.value = lastRead.appended

EightHours == 8 * 60 * 60

\* C10: every existing key expires exactly eight hours after the most recent
\* append to it (each append sets the time to live back to the full window), and
\* a key is removed only when eight hours have passed since that append.
C10_SlidingExpiry ==
    /\ [](\A k \in DOMAIN lists : ttl[k] > 0 /\ ttl[k] = EightHours - idle[k])
    /\ [][\A k \in DOMAIN lists :
              /\ k \notin DOMAIN lists' => idle[k] + TickSeconds >= EightHours
              /\ (k \in DOMAIN lists' /\ Len(lists'[k]) > Len(lists[k])) =>
                     ttl'[k] = EightHours]_vars

\* A key still alive eight hours after its first append, thanks to a later one.
C10_Witness ==
    \E k \in DOMAIN lists :
        /\ age[k] >= EightHours
        /\ Len(lists[k]) = 2
        /\ ttl[k] > 0

-----------------------------------------------------------------------------
(* The scheduler and the enumeration of the active chats. *)

Range(f) == { f[i] : i \in DOMAIN f }

\* The chat identifiers messages are stored under, and one that never has a key.
ChatIdStrings == { "1", "chat:1", "12" }

\* The chats whose history key exists.
ChatsWithKey == { c \in ChatIdStrings : ("chat:" \o c) \in DOMAIN lists }

\* C11: getActiveChats returns a chat id exactly when the chat's history key
\* exists; a key exists only while the last append to it is less than eight
\* hours old, it comes into existence only by an append (which always leaves
\* it existing) and goes away only by expiry; the list onCronJob receives is
\* the set of chats whose key exists at the time of the call.
C11_ActiveChats ==
    /\ [](\A ids \in getActiveChats :
             /\ Range(ids) = ChatsWithKey
             /\ Len(ids) = Cardinality(ChatsWithKey))
    /\ [](\A k \in DOMAIN lists : Len(lists[k]) >= 1 /\ idle[k] < EightHours)
    /\ [][/\ \A k \in DOMAIN lists' \ DOMAIN lists : nAppends' = nAppends + 1 /\ idle'[k] = 0
          /\ nAppends' = nAppends + 1 =>
                 \E k \in DOMAIN lists' :
                     /\ idle'[k] = 0
                     /\ Len(lists'[k]) = 1 + (IF k \in DOMAIN lists THEN Len(lists[k]) ELSE 0)
          /\ \A k \in DOMAIN lists \ DOMAIN lists' : idle[k] + TickSeconds >= EightHours
          /\ (cronPc = "idle" /\ cronPc' # "idle" /\ cronOutcome' # "threw") =>
                 /\ Range(chatIds') = ChatsWithKey
                 /\ Len(chatIds') = Cardinality(ChatsWithKey)]_vars

\* A run that enumerated both chats, after which the key of chat "1" expired and
\* chat "1" is no longer among the active chats.
C11_Witness ==
    /\ Range(chatIds) = { "1", "chat:1" }
    /\ ChatsWithKey = { "chat:1" }
    /\ getActiveChats = { << "chat:1" >> }

-----------------------------------------------------------------------------
(* The key of a chat. *)

\* C12: the key of chat c is "chat:" followed by c; two chats with the same key
\* are the same chat; stripping the prefix the way getActiveChats does gives c
\* back, also for a chat id that itself contains "chat:"; every id getActiveChats
\* returned is the id whose key existed.
C12_KeyMapping ==
    /\ \A c \in LayerChatIds :
          /\ generateKeyChat(c) = "chat:" \o c
          /\ StripPrefix(generateKeyChat(c)) = c
          /\ \A d \in LayerChatIds : generateKeyChat(c) = generateKeyChat(d) => c = d
    /\ lastActive.done =>
          /\ { generateKeyChat(c) : c \in Range(lastActive.value) } = lastActive.keys
          /\ Len(lastActive.value) = Cardinality(lastActive.keys)

\* getActiveChats returned the chat "chat:1", stored under "chat:chat:1", and chat "1".
C12_Witness ==
    /\ lastActive.done
    /\ Range(lastActive.value) = { "chat:1", "1" }
    /\ lastActive.keys = { "chat:chat:1", "chat:1" }

-----------------------------------------------------------------------------
(* One run of onCronJob. *)

CronFinished == cronPc = "done"

\* The chats the loop has read the history of (line 111), by position in chatIds.
Visited == 1..Len(checked)

\* Number of bot.api calls of the method to the chat in this run.
ApiCallsTo(method, chatId) ==
    Cardinality({ j \in 1..Len(apiCalls) :
                    apiCalls[j].method = method /\ apiCalls[j].chatId = chatId })

C14_FaultContained ==
    CronFinished => \A i \in 1..Len(chatIds) : i <= cronIndex

\* C15: a run that ends normally has signalled the typing indicator exactly
\* once for each chat whose history it read nonempty.
C15_TypingPerChat ==
    (CronFinished /\ cronOutcome = "returned") =>
        \A i \in 1..Len(chatIds) :
            ApiCallsTo("sendChatAction", chatIds[i]) = IF checked[i] > 0 THEN 1 ELSE 0

-----------------------------------------------------------------------------
(* The conversation-summary request. *)

\* The request is the four system instructions followed by one user entry per
\* item of h, "@" + author + ": " + content, in the order of h.
IsConversationRequest(req, h) ==
    /\ Len(req) = 4 + Len(h)
    /\ \A i \in 1..4 : req[i] = ConversationInstructions[i] /\ req[i].role = "system"
    /\ \A i \in 1..Len(h) :
          /\ req[4 + i].role = "user"
          /\ req[4 + i].content = "@" \o h[i].username \o ": " \o h[i].message

\* The items stored under the key, oldest first, as getHistory splits them.
StoredItems(key) ==
    IF key \in DOMAIN lists
    THEN [ i \in 1..Len(lists[key]) |->
             [ username |-> Split(lists[key][i], "###")[1],
               message  |-> Split(lists[key][i], "###")[2] ] ]
    ELSE << >>

-----------------------------------------------------------------------------
(* Failures of the summarization backend. *)

\* The event's entry as the store holds it.
EventEntry == Author \o "###" \o BodyText

\* generate() rejected while the "/summary" of the event in flight was served.
CommandProviderFailure == Handling /\ Routed /\ BeginsWithCommand /\ error = ErrProvider

\* generate() rejected while the auto-digest of the event in flight was made.
DigestProviderFailure == Handling /\ Routed /\ ~ BeginsWithCommand /\ error = ErrProvider

\* C17: when generate() rejects in the command branch the handler ends with
\* that error, has sent no reply and has made one summarization call, and it
\* makes no further call for the event afterwards.
C17_NoRetry ==
    /\ [](CommandProviderFailure =>
             /\ Finished /\ outcome = "threw"
             /\ replyCalls = << >>
             /\ Len(generateCalls) = 1
             /\ Len(getCalls) = 1
             /\ updateCalls = << >>)
    /\ [][CommandProviderFailure =>
             \/ << getCalls', updateCalls', generateCalls', replyCalls', typingCalls' >>
                  = << getCalls, updateCalls, generateCalls, replyCalls, typingCalls >>
             \/ pc' = "idle"]_vars

C17_Witness ==
    /\ CommandProviderFailure
    /\ Finished
    /\ Len(generateCalls) = 1

\* C18: when generate() rejects during the auto-digest, the append of the
\* message has been made and the failure leaves the store as it is: the entry
\* is the last one of the chat's list for as long as the key lives, and the key
\* goes away only by expiry.
C18_AppendKept ==
    /\ [](DigestProviderFailure =>
             /\ Finished /\ outcome = "threw"
             /\ Len(updateCalls) = 1
             /\ ChatKey \in DOMAIN lists =>
                    lists[ChatKey][Len(lists[ChatKey])] = EventEntry)
    /\ [][/\ (pc = "digest" /\ error' = ErrProvider) =>
                 /\ lists' = lists
                 /\ ttl' = ttl
          /\ (DigestProviderFailure /\ ChatKey \in DOMAIN lists /\ ChatKey \notin DOMAIN lists') =>
                 idle[ChatKey] + TickSeconds >= EightHours]_vars

\* The auto-digest of "hey" failed and "hey" is in the history of the chat.
C18_Witness ==
    /\ DigestProviderFailure
    /\ Finished
    /\ ChatKey \in DOMAIN lists
    /\ lists[ChatKey] = << EventEntry >>
    /\ idle[ChatKey] = 0

-----------------------------------------------------------------------------
(* Appends in flight together, and the order of the appends of one chat. *)

\* C19: whatever the order in which the store executes the updateHistory calls
\* in flight, executing one adds its entry at the end of the key's list, keeps
\* every entry already there, sets the key's time to live to the full eight
\* hours and touches no other key; so a key holds as many entries as appends
\* were executed on it since it was created.
C19_NoLostUpdate ==
    /\ [](\A k \in DOMAIN lists :
             /\ Len(lists[k]) = Len(appended[k])
             /\ \A i \in 1..Len(lists[k]) :
                   lists[k][i] = appended[k][i].username \o "###" \o appended[k][i].message)
    /\ [][\A call \in pending \ pending' :
             /\ call.key \in DOMAIN lists'
             /\ lists'[call.key] =
                    (IF call.key \in DOMAIN lists THEN lists[call.key] ELSE << >>)
                    \o << call.username \o "###" \o call.message >>
             /\ ttl'[call.key] = EightHours
             /\ \A k \in DOMAIN lists \ { call.key } :
                   k \in DOMAIN lists' /\ lists'[k] = lists[k] /\ ttl'[k] = ttl[k]]_vars

\* Two appends to one chat were in flight together; the one issued second has
\* been executed and the one issued first is still in flight.
C19_Witness ==
    /\ nAppends = 2
    /\ \E call \in pending :
          /\ call.id = 1
          /\ call.key \in DOMAIN lists
          /\ Len(lists[call.key]) = 1
          /\ idle[call.key] = 0

-----------------------------------------------------------------------------
(* What the claims say of generate(), read off the environment. *)

OpenAiConfigured == envLlm.OPENAI_API_KEY # ""

CloudflareConfigured ==
    /\ envLlm.CLOUDFLARE_ACCOUNT_ID # ""
    /\ envLlm.CLOUDFLARE_AUTH_KEY # ""
    /\ envLlm.CLOUDFLARE_MODEL # ""

OllamaConfigured == envLlm.OLLAMA_URI # ""

C22_TranscribeNeverThrows ==
    \A i \in 1..Len(transcribed) :
        LET t == transcribed[i] IN
        /\ t.fn \in { "transcribeAudio", "transcribeToText", "transcribeBuffer" }
        /\ ~ t.threw
        /\ (~ t.backend.threw /\ t.backend.text # "") =>
              (~ t.result.isNull /\ t.result.text = t.backend.text)
        /\ (t.backend.threw \/ t.backend.text = "") => t.result.isNull

\* The three wrappers were called: the backend failed under transcribeBuffer,
\* returned an empty text under transcribeAudio and "hey" under transcribeToText.
C22_Witness ==
    /\ Len(transcribed) = 3
    /\ transcribed[1].fn = "transcribeBuffer" /\ transcribed[1].backend.threw
    /\ transcribed[2].fn = "transcribeAudio"
    /\ ~ transcribed[2].backend.threw /\ transcribed[2].backend.text = ""
    /\ transcribed[3].fn = "transcribeToText" /\ transcribed[3].result.text = "hey"

-----------------------------------------------------------------------------
(* What the claims say of voice messages. *)

\* The event carries a voice attachment and no text, caption or document, and
\* passes the chat, allow-list and sender checks.
VoiceEvent == ev.body.voice /\ BodyText = "" /\ HasChat /\ AllowListed /\ HasSender

\* C23: the handler of a voice event calls the transcription and, the bot
\* being configured for it, either the call gave no text and the event was
\* dropped without error, or the returned text was stored as the event's text.
C23_VoiceTranscribed ==
    (Finished /\ VoiceEvent) =>
        /\ Len(transcribed) = 1
        /\ outcome = "threw" => error \in { ErrStore, ErrProvider, ErrSend }
        /\ \/ transcribed[1].result.isNull /\ NoCalls
           \/ /\ ~ transcribed[1].result.isNull
              /\ Len(updateCalls) = 1
              /\ updateCalls[1] = << ChatKey, Author, transcribed[1].result.text >>

\* C24: with CRON_SCHEDULE set to 'never' the scheduler never fires: no run of
\* onCronJob is started.
C24_NeverDisables ==
    envCronSchedule = "never" => (nCronRuns = 0 /\ cronPc = "idle")

\* C25: every stored string holds the separator only between its two fields:
\* it splits at "###" into exactly two parts, the author and the content of
\* the pair that was appended.
C25_SeparatorFree ==
    \A k \in DOMAIN lists :
        \A i \in 1..Len(lists[k]) :
            LET parts == Split(lists[k][i], "###") IN
            /\ Len(parts) = 2
            /\ parts[1] = appended[k][i].username
            /\ parts[2] = appended[k][i].message

\* C26: whatever happened to the events handled so far, the bot is still
\* receiving: a handler that failed left the bot polling for the next event.
C26_KeepsReceiving == pollingRunning

\* C27: when the sendChatAction call of the command branch was rejected, the
\* handler goes on as after a resolved one: it reads the history, and then,
\* each call being made once the one before it succeeded, calls generate()
\* and sends the reply; if the handler fails it fails with the error of one
\* of these calls, never with that of the indicator.
C27_TypingSwallowed ==
    typingOutcome = "rejected" =>
        /\ pc \in { "getHistory", "generate", "reply", "done" }
        /\ Len(typingCalls) = 1
        /\ error \in { "", ErrStore, ErrProvider, ErrSend }
        /\ Finished =>
              /\ Len(getCalls) = 1
              /\ error # ErrStore => Len(generateCalls) = 1
              /\ error \notin { ErrStore, ErrProvider } => Len(replyCalls) = 1
              /\ outcome = "threw" <=> error # ""

\* The indicator call was rejected and the summary was replied all the same.
C27_Witness ==
    /\ typingOutcome = "rejected"
    /\ Finished /\ outcome = "returned"
    /\ Len(getCalls) = 1 /\ Len(generateCalls) = 1
    /\ Len(replyCalls) = 1 /\ replyCalls[1].text = summary

-----------------------------------------------------------------------------
(* What the claims say of the Storage instance, read off the call that       *)
(* completed last.                                                           *)

Completed(op) == storageDone.op = op

\* C28 as stated: the client is null until the first connect; connect on a
\* connected instance keeps the client and creates none; disconnect leaves the
\* client null without error; destroy flushes the store and leaves the client
\* null; a store operation that finds the client null establishes a new one.
C28_Original ==
    /\ nClients = 0 => client = 0
    /\ (Completed("connect") /\ storageDone.before # 0) =>
          /\ storageDone.outcome = "returned"
          /\ storageDone.after = storageDone.before
          /\ storageDone.created = 0
    /\ Completed("disconnect") =>
          /\ storageDone.outcome = "returned"
          /\ storageDone.after = 0
    /\ Completed("destroy") =>
          /\ storageDone.outcome = "returned"
          /\ storageDone.after = 0
          /\ storageDone.before # 0 => storageDone.flushed
    /\ (Completed("getHistory") /\ storageDone.before = 0) =>
          /\ storageDone.created # 0
          /\ storageDone.used = storageDone.created

\* C28: the client is null until the first connect; connect on a connected
\* instance keeps the client and creates none, and on an instance without
\* client creates one, which is the instance's client when connect returns;
\* disconnect returns without error when there is no client, and whenever it
\* returns the client is null; destroy, whenever it returns, has flushed the
\* store if there was a client and leaves the client null; disconnect and
\* destroy fail only with the rejection of the client's disconnect or flushAll;
\* a store operation that finds the client null creates a new client and, when
\* its connection succeeds, runs on it.
C28_Lifecycle ==
    /\ nClients = 0 => client = 0
    /\ (Completed("connect") /\ storageDone.before # 0) =>
          /\ storageDone.outcome = "returned"
          /\ storageDone.after = storageDone.before
          /\ storageDone.created = 0
    /\ (Completed("connect") /\ storageDone.before = 0) =>
          /\ storageDone.created # 0
          /\ storageDone.outcome = "returned" => storageDone.after = storageDone.created
          /\ storageDone.outcome = "threw" => storageDone.at = "connect"
    /\ Completed("disconnect") =>
          /\ storageDone.before = 0 => storageDone.outcome = "returned"
          /\ storageDone.outcome = "returned" => storageDone.after = 0
          /\ storageDone.outcome = "threw" => storageDone.at = "disconnect"
    /\ Completed("destroy") =>
          /\ storageDone.before = 0 => storageDone.outcome = "returned"
          /\ storageDone.outcome = "returned" =>
                /\ storageDone.after = 0
                /\ storageDone.before # 0 => storageDone.flushed
          /\ storageDone.outcome = "threw" => storageDone.at \in { "flushAll", "disconnect" }
    /\ (Completed("getHistory") /\ storageDone.before = 0) =>
          /\ storageDone.created # 0
          /\ storageDone.outcome = "returned" => storageDone.used = storageDone.created

\* After a connect and a disconnect, a store operation found the client null,
\* made the second client and ran on it.
C28_Witness ==
    /\ nStorageCalls = 3
    /\ Completed("getHistory") /\ storageDone.outcome = "returned"
    /\ storageDone.before = 0
    /\ storageDone.created = 2 /\ storageDone.used = 2
    /\ client = 2

-----------------------------------------------------------------------------
(* What the claims say of reconnection. *)

\* C29: reconnectStrategy returns a delay for the retry counts 0..10 and false
\* for every greater one, so the socket makes at most eleven waits after
\* failed attempts and then gives up: its retry count never passes 11, and it
\* has ended only after the strategy was asked with a count above 10.
C29_RetryCeiling ==
    /\ strategyResult.called =>
          (strategyResult.result.retry <=> strategyResult.retries \in 0..10)
    /\ retries <= 11
    /\ Len(delays) = retries
    /\ socket = "ended" => retries = 11

\* The socket gave up after eleven delays, and the strategy answered false
\* for the retry count 12.
C29_Witness ==
    /\ socket = "ended"
    /\ Len(delays) = 11
    /\ strategyResult.called /\ strategyResult.retries = 12
    /\ ~ strategyResult.result.retry

\* C30 as stated: the delays of one reconnection grow exponentially, each the
\* double of the one before it up to the cap of 3000 ms.
C30_Original ==
    \A i \in 2..Len(delays) :
        /\ delays[i] <= 3000
        /\ delays[i - 1] > 0 => delays[i] = Min(2 * delays[i - 1], 3000)

\* C30: the delays grow linearly, by 100 ms with every retry (100 ms times the
\* retry count), and never exceed the cap of 3000 ms.
C30_LinearBackoff ==
    /\ \A i \in 1..Len(delays) :
          /\ delays[i] = 100 * (i - 1)
          /\ delays[i] <= 3000
    /\ (strategyResult.called /\ strategyResult.result.retry) =>
          /\ strategyResult.result.delay = 100 * strategyResult.retries
          /\ strategyResult.result.delay <= 3000

\* Eleven attempts failed: the delays went from 0 to 1000 ms in steps of 100.
C30_Witness ==
    /\ socket = "connecting"
    /\ Len(delays) = 11
    /\ delays[2] = 100 /\ delays[4] = 300 /\ delays[11] = 1000

-----------------------------------------------------------------------------
(* What the claims say of the store as a whole. *)

\* The history of the key: the empty list when the key does not exist.
HistoryOf(store, key) == IF key \in DOMAIN store THEN store[key] ELSE << >>

\* C31: in every step of the scheduler, of a handler's append and of expiry,
\* the history of every chat stays as it was, or gets one entry at its end, or
\* becomes empty because the whole key went away; no existing key holds an
\* empty list.
C31_AppendOnly ==
    /\ [](\A k \in DOMAIN lists : lists[k] # << >>)
    /\ [][\A k \in DOMAIN lists \cup DOMAIN lists' :
             LET old == HistoryOf(lists, k)
                 new == HistoryOf(lists', k) IN
             \/ new = old
             \/ /\ Len(new) = Len(old) + 1
                /\ SubSeq(new, 1, Len(old)) = old
             \/ new = << >>]_vars

\* While a run of the scheduler is under way a chat has two entries, the
\* second just added behind the first, which has been stored for a while.
C31_Witness ==
    /\ cronPc \notin { "idle", "done" }
    /\ nAppends = 2
    /\ \E k \in DOMAIN lists : Len(lists[k]) = 2 /\ idle[k] = 0 /\ age[k] > 0

-----------------------------------------------------------------------------
(* C32: the business-connection binding of a chat. *)

\* The token of the most recent save for the chat of the last read.
LastSaved == lastBinding.saved[Len(lastBinding.saved)]

-----------------------------------------------------------------------------
(* C33: one client per Storage instance. *)

\* The clients that exist: those being connected and those connected.
LiveClients == openClients \cup { c.target : c \in { d \in storageCalls : d.at = "connect" } }

\* C33: at most one store client exists per Storage instance at any time, also
\* when several operations call connect() before the first connection has been
\* established, and a connected client is the one the instance refers to (no
\* second client is created and left unreferenced).
C33_SingleClient ==
    /\ Cardinality(LiveClients) <= 1
    /\ openClients \subseteq { client }

-----------------------------------------------------------------------------
(* C34: the scheduler's two reads of a chat's history. *)

\* C34: the history generate_summary hands to the summarization call of a
\* scheduler run is never empty, and when the scheduler sends a digest to a
\* chat the history of that chat is not empty at that time.
C34_NonemptyDigest ==
    /\ [](cronPc \in { "generate", "sendMessage" } => cronHistory # << >>)
    /\ [][Len(apiCalls') > Len(apiCalls) => getHistory(CronKey) # << >>]_vars

-----------------------------------------------------------------------------
(* C35: summarizing leaves the store alone. *)

\* The event e asks for a summary: its text begins with "/summary".
AsksSummary(e) == StartsWith(e.body.text, "/summary")

\* C35: no step of the handler of a /summary command and no step of a scheduler
\* run changes the history of any chat or its remaining time to live.
C35_ReadOnly ==
    [][(\/ pc' # pc /\ (AsksSummary(ev) \/ AsksSummary(ev'))
        \/ cronPc' # cronPc)
       => lists' = lists /\ ttl' = ttl]_vars

\* A /summary command has been answered and the scheduler has sent a digest
\* while a history that has used up part of its lifetime is in the store.
C35_Witness ==
    /\ pc = "done"
    /\ AsksSummary(ev)
    /\ replyCalls # << >>
    /\ apiCalls # << >>
    /\ \E k \in DOMAIN lists : lists[k] # << >> /\ ttl[k] < ExpireSeconds

-----------------------------------------------------------------------------
(* C36: an event's handling stays within the event's chat. *)

\* The chat id of the event in flight, as the platform's calls take it.
OwnChat == IF ev.chatId = 1 THEN "1" ELSE IF ev.chatId = 12 THEN "12" ELSE ""

-----------------------------------------------------------------------------
(* C37: what one event can cause. *)

\* C37: the handler of an event makes at most one history append, at most one
\* summarization call and at most one reply, and it has made a reply only if
\* its one summarization call has returned a summary.
C37_AtMostOnce ==
    /\ Len(updateCalls) <= 1
    /\ Len(generateCalls) <= 1
    /\ Len(replyCalls) <= 1
    /\ replyCalls # << >> =>
          /\ Len(generateCalls) = 1
          /\ summary \in Summaries
          /\ error # ErrProvider

\* A long message has been appended, summarized and answered, once each.
C37_Witness ==
    /\ Finished
    /\ outcome = "returned"
    /\ Len(updateCalls) = 1
    /\ Len(generateCalls) = 1
    /\ Len(replyCalls) = 1

-----------------------------------------------------------------------------
(* C38: the scheduler and the allow-list. *)

\* C38: with the allow-list "12,3" and a store that starts empty, every key in
\* the store is the key of a chat of the list, and every call the scheduler
\* makes to the platform is for a chat of the list.
C38_DigestAllowListed ==
    envWhitelistedChats = "12,3" =>
        /\ DOMAIN lists \subseteq { "chat:12", "chat:3" }
        /\ \A i \in 1..Len(apiCalls) : apiCalls[i].chatId \in { "12", "3" }

\* Under the allow-list, the scheduler has sent chat 12 its digest and the
\* handler has dropped an event of chat 1.
C38_Witness ==
    /\ envWhitelistedChats = "12,3"
    /\ \E i \in 1..Len(apiCalls) :
          apiCalls[i].method = "sendMessage" /\ apiCalls[i].chatId = "12"
    /\ Finished
    /\ ev.chatId = 1
    /\ outcome = "returned"
    /\ updateCalls = << >>

-----------------------------------------------------------------------------
(* C39: the Whisper singleton. *)

\* C39: at most one Whisper instance is live at any time, a live instance is
\* the one the module holds, and once freeWhisper has returned with no other
\* call in flight no instance is held or live.
C39_SingleInstance ==
    /\ Cardinality(liveInstances) <= 1
    /\ liveInstances \subseteq { whisperInstance }
    /\ (whisperDone.fn = "freeWhisper" /\ whisperCalls = { }) =>
          whisperInstance = 0 /\ liveInstances = { }

-----------------------------------------------------------------------------
(* C40: the temporary file of transcribeBuffer. *)

\* C40: when transcribeBuffer has returned, with a text or with null, the
\* temporary audio file it wrote is no longer on disk.
C40_TempRemoved ==
    (whisperDone.fn = "transcribeBuffer" /\ whisperDone.outcome = "returned") =>
        whisperDone.temp \notin tempFiles

\* The one call made is a transcribeBuffer that created the Whisper instance
\* and then failed to convert or to transcribe: it has returned null and its
\* temporary file is gone.
C40_Witness ==
    /\ nWhisperCalls = 1
    /\ whisperDone.fn = "transcribeBuffer"
    /\ whisperDone.outcome = "returned"
    /\ whisperDone.result.isNull
    /\ whisperDone.temp = 1
    /\ whisperInstance = 1
    /\ tempFiles = { }

====
